---- MODULE Spec2Model ----
(***************************************************************************)
(* Orchestration layer of the agentic framework: AgentRouter               *)
(* (orchestration/router.py), ConversationManager                          *)
(* (orchestration/conversation_manager.py), AgentRegistry and A2AClient    *)
(* (a2a_protocol/).                                                        *)
(*                                                                         *)
(* The program runs on one asyncio event loop: a coroutine runs atomically *)
(* until it awaits something that really suspends.  Inside                 *)
(* process_user_input the only such points are agent.process_task and the  *)
(* transport behind A2AClient._send_message, so one call is modelled as a  *)
(* start step (everything up to the suspension) and a completion step.     *)
(*                                                                         *)
(* Texts built with f-strings are sequences of their pieces; user messages *)
(* are sequences of characters; capability lists that are only tested with *)
(* "in" are sets; Python dicts whose iteration order is observable are     *)
(* sequences of <<key, value>> pairs in insertion order.                   *)
(***************************************************************************)
EXTENDS Integers, Sequences, FiniteSets, TLC

\* ------------------------------------------------------------- bounds
MaxCalls == 2
MaxTicks == 1
MaxOps == 2
MaxEntries == 3

\* ---------------------------------------------------------- constants
SecondsPerHour == 3600
HistoryWindow == 5

None == "None"
NoUser == "NoUser"
EmptyMap == [k \in {} |-> None]

\* ---------------------------------------------------------- variables
VARIABLES
    agents,                 \* AgentRouter.agents: dict id -> handle
    routing_rules,          \* AgentRouter.routing_rules: type -> list of ids
    registry,               \* AgentRegistry.agents: dict id -> AgentCard
    conversation_state,     \* ConversationManager.conversation_state
    conversation_history,   \* ConversationManager.conversation_history
    active_sessions,        \* ConversationManager.active_sessions
    now,                    \* datetime.now(), in seconds
    calls,                  \* the calls issued so far, in arrival order
    status_listeners,       \* A2AClient.status_listeners: the dict's entries
    message_queue,          \* A2AClient.message_queue, per client
    ops,                    \* the client calls issued so far, in arrival order
    last_op,                \* the latest completed directory operation
    latest,                 \* per id, what the latest operation on it left
    inbox_log,              \* per client, the messages put and got, in order
    last_call               \* the latest completed manager operation

vars == <<agents, routing_rules, registry, conversation_state,
          conversation_history, active_sessions, now, calls,
          status_listeners, message_queue, ops, last_op, latest,
          inbox_log, last_call>>

\* ------------------------------------------------ insertion-ordered dict
DictHas(d, k) == \E i \in 1..Len(d) : d[i][1] = k
DictGet(d, k) == d[CHOOSE i \in 1..Len(d) : d[i][1] = k][2]
DictValues(d) == [i \in 1..Len(d) |-> d[i][2]]
DictPut(d, k, v) ==
    IF DictHas(d, k)
    THEN [i \in 1..Len(d) |-> IF d[i][1] = k THEN <<k, v>> ELSE d[i]]
    ELSE Append(d, <<k, v>>)
DictDel(d, k) == SelectSeq(d, LAMBDA e : e[1] # k)
\* del d[k]: a KeyError when k is not a key
DictDelItem(d, k) ==
    IF DictHas(d, k)
    THEN [dict |-> DictDel(d, k), raised |-> FALSE]
    ELSE [dict |-> d, raised |-> TRUE]
DictUnique(d) == \A i, j \in 1..Len(d) : d[i][1] = d[j][1] => i = j

MapPut(f, k, v) == [x \in (DOMAIN f) \cup {k} |-> IF x = k THEN v ELSE f[x]]
MapDel(f, k) == [x \in (DOMAIN f) \ {k} |-> f[x]]

\* ------------------------------------------------------------ universe
Users == {"u1", "u2"}
TaskTypes == {"research", "planning", "analysis", "coding", "general"}

\* str.lower() on the characters the messages use
Lower(ch) ==
    CASE ch = "F" -> "f" [] ch = "E" -> "e" [] ch = "R" -> "r"
      [] ch = "P" -> "p" [] ch = "O" -> "o" [] ch = "T" -> "t"
      [] OTHER -> ch
LowerStr(s) == [i \in 1..Len(s) |-> Lower(s[i])]

\* keyword in message_lower
Contains(s, kw) ==
    \E i \in 0..(Len(s) - Len(kw)) :
        \A j \in 1..Len(kw) : s[i + j] = kw[j]
AnyKeyword(s, kws) == \E i \in 1..Len(kws) : Contains(s, kws[i])

Keywords_research ==
    << <<"s","e","a","r","c","h">>,
       <<"f","i","n","d">>,
       <<"r","e","s","e","a","r","c","h">>,
       <<"l","o","o","k"," ","u","p">> >>
Keywords_planning ==
    << <<"p","l","a","n">>,
       <<"s","c","h","e","d","u","l","e">>,
       <<"o","r","g","a","n","i","z","e">>,
       <<"b","r","e","a","k"," ","d","o","w","n">> >>
Keywords_analysis ==
    << <<"a","n","a","l","y","z","e">>,
       <<"r","e","p","o","r","t">>,
       <<"s","u","m","m","a","r","i","z","e">> >>
Keywords_coding ==
    << <<"c","o","d","e">>,
       <<"p","r","o","g","r","a","m">>,
       <<"i","m","p","l","e","m","e","n","t">>,
       <<"d","e","v","e","l","o","p">> >>

\* mutant of the if/elif chain: the keywords are looked for in the message as
\* typed, and the coding keywords before the analysis keywords
ClassifyAsTyped(message) ==
    IF AnyKeyword(message, Keywords_research)
    THEN [type |-> "research", capabilities |-> <<"web_search", "data_analysis">>]
    ELSE IF AnyKeyword(message, Keywords_planning)
    THEN [type |-> "planning",
          capabilities |-> <<"task_decomposition", "workflow_planning">>]
    ELSE IF AnyKeyword(message, Keywords_coding)
    THEN [type |-> "coding", capabilities |-> <<"code_generation", "debugging">>]
    ELSE IF AnyKeyword(message, Keywords_analysis)
    THEN [type |-> "analysis",
          capabilities |-> <<"data_analysis", "report_generation">>]
    ELSE [type |-> "general", capabilities |-> <<>>]

\* the if/elif chain of _analyze_user_message
Classify(message) ==
    LET message_lower == LowerStr(message) IN
    IF AnyKeyword(message_lower, Keywords_research)
    THEN [type |-> "research", capabilities |-> <<"web_search", "data_analysis">>]
    ELSE IF AnyKeyword(message_lower, Keywords_planning)
    THEN [type |-> "planning",
          capabilities |-> <<"task_decomposition", "workflow_planning">>]
    ELSE IF AnyKeyword(message_lower, Keywords_analysis)
    THEN [type |-> "analysis",
          capabilities |-> <<"data_analysis", "report_generation">>]
    ELSE IF AnyKeyword(message_lower, Keywords_coding)
    THEN [type |-> "coding", capabilities |-> <<"code_generation", "debugging">>]
    ELSE [type |-> "general", capabilities |-> <<>>]

MsgFind == <<"F","i","n","d"," ","i","t">>
MsgPlan == <<"p","l","a","n">>
MsgHi == <<"h","i">>
MsgExplain == <<"E","x","p","l","a","i","n">>
MsgReportCode == <<"c","o","d","e"," ","a"," ","R","E","P","O","R","T">>
MsgDevelop == <<"d","e","v","e","l","o","p">>
Messages == {MsgFind, MsgPlan, MsgHi, MsgExplain, MsgReportCode, MsgDevelop}
\* the messages the concurrent specifications send
SessionMessages == {MsgFind, MsgHi}

\* ------------------------------------------------------- AgentRegistry
\* AgentCard: the fields the orchestration layer reads
Card(id, caps) == [agent_id |-> id, capabilities |-> caps]

\* mutant of register_agent: the card is added behind the cards present
RegisterCardAppend(reg, card) == Append(reg, <<card.agent_id, card>>)

\* register_agent: self.agents[card.agent_id] = card
RegisterCard(reg, card) == DictPut(reg, card.agent_id, card)

\* mutant of unregister_agent: del without the membership test
UnregisterCardUnguarded(reg, agent_id) == DictDelItem(reg, agent_id)

\* unregister_agent: if agent_id in self.agents: del ...
UnregisterCard(reg, agent_id) ==
    IF DictHas(reg, agent_id)
    THEN DictDelItem(reg, agent_id)
    ELSE [dict |-> reg, raised |-> FALSE]

\* get_agent: self.agents.get(agent_id); an Optional is a sequence of at most
\* one card
GetAgent(reg, agent_id) ==
    IF DictHas(reg, agent_id) THEN <<DictGet(reg, agent_id)>> ELSE <<>>

\* mutant of discover_agents: the scan stops at the first card found
DiscoverAgentsFirst(reg, capability) ==
    LET found == SelectSeq(DictValues(reg),
                           LAMBDA card : capability \in card.capabilities)
    IN  IF found = <<>> THEN <<>> ELSE <<Head(found)>>

\* discover_agents: the cards with the capability, in dict order
DiscoverAgents(reg, capability) ==
    SelectSeq(DictValues(reg), LAMBDA card : capability \in card.capabilities)

\* list_all_agents: list(self.agents.values())
ListAllAgents(reg) == DictValues(reg)

\* --------------------------------------------------------- AgentRouter
\* a local handle: the attribute the router probes with getattr
Handle(caps) == [capabilities |-> caps]

\* _agent_has_capabilities
AgentHasCapabilities(agent, required_capabilities) ==
    IF required_capabilities = <<>>
    THEN TRUE
    ELSE \A i \in 1..Len(required_capabilities) :
            required_capabilities[i] \in agent.capabilities

\* mutant of the rule scan: the capability check is left out
RECURSIVE RuleScanNoCaps(_, _, _)
RuleScanNoCaps(ag, ids, required) ==
    IF ids = <<>> THEN None
    ELSE IF DictHas(ag, Head(ids))
         THEN Head(ids)
         ELSE RuleScanNoCaps(ag, Tail(ids), required)

\* _select_best_agent, lines 36-41: the rule list of the task type, in order
RECURSIVE RuleScan(_, _, _)
RuleScan(ag, ids, required) ==
    IF ids = <<>> THEN None
    ELSE IF DictHas(ag, Head(ids))
            /\ AgentHasCapabilities(DictGet(ag, Head(ids)), required)
         THEN Head(ids)
         ELSE RuleScan(ag, Tail(ids), required)

\* mutant of the local scan: the last matching handle wins
RECURSIVE LocalScanLast(_, _)
LocalScanLast(ag, required) ==
    IF ag = <<>> THEN None
    ELSE IF LocalScanLast(Tail(ag), required) # None
         THEN LocalScanLast(Tail(ag), required)
         ELSE IF AgentHasCapabilities(Head(ag)[2], required)
              THEN Head(ag)[1]
              ELSE None

\* mutant of the local scan: the covering handles take turns, one call after
\* the other
LocalScanRoundRobin(ag, required) ==
    LET served == Cardinality({c \in DOMAIN calls : calls[c].pc # "idle"})
        covering == SelectSeq(ag, LAMBDA e :
                                  AgentHasCapabilities(e[2], required))
    IN  IF covering = <<>> THEN None
        ELSE covering[(served % Len(covering)) + 1][1]

\* _select_best_agent, lines 44-46: every local handle, in dict order
RECURSIVE LocalScan(_, _)
LocalScan(ag, required) ==
    IF ag = <<>> THEN None
    ELSE IF AgentHasCapabilities(Head(ag)[2], required)
         THEN Head(ag)[1]
         ELSE LocalScan(Tail(ag), required)

\* mutant of the directory fallback: a discovered card must advertise every
\* required capability
ExternalScanAll(reg, required) ==
    LET full == SelectSeq(DictValues(reg),
                    LAMBDA card : \A i \in 1..Len(required) :
                                      required[i] \in card.capabilities)
    IN  IF required # <<>> /\ full # <<>>
        THEN [agent |-> full[1].agent_id, queries |-> <<Head(required)>>]
        ELSE [agent |-> None, queries |-> required]

\* _select_best_agent, lines 49-53: one directory query per required
\* capability, in order, until one query returns a card
RECURSIVE ExternalScan(_, _)
ExternalScan(reg, required) ==
    IF required = <<>> THEN [agent |-> None, queries |-> <<>>]
    ELSE LET external_agents == DiscoverAgents(reg, Head(required)) IN
         IF external_agents # <<>>
         THEN [agent |-> external_agents[1].agent_id,
               queries |-> <<Head(required)>>]
         ELSE LET rest == ExternalScan(reg, Tail(required)) IN
              [agent |-> rest.agent,
               queries |-> <<Head(required)>> \o rest.queries]

\* _select_best_agent: the selected id (or None), the return statement that
\* produced it and the directory queries made on the way; None stands for
\* Python's None, so that no agent id is the text "None"
SelectBestAgent(ag, rules, reg, task_type, required) ==
    LET byRule == IF task_type \in DOMAIN rules
                  THEN RuleScan(ag, rules[task_type], required)
                  ELSE None
        byLocal == LocalScan(ag, required)
        ext == ExternalScan(reg, required)
    IN  IF byRule # None
        THEN [agent |-> byRule, step |-> "rule", queries |-> <<>>]
        ELSE IF byLocal # None
        THEN [agent |-> byLocal, step |-> "local", queries |-> <<>>]
        ELSE IF required # <<>> /\ ext.agent # None
        THEN [agent |-> ext.agent, step |-> "external", queries |-> ext.queries]
        ELSE [agent |-> None, step |-> "none",
              queries |-> IF required # <<>> THEN ext.queries ELSE <<>>]

\* mutant of route_task, line 23: the text does not name the task type
NoAgentTextGeneric(task_type) == <<"No suitable agent found">>

\* route_task, line 23
NoAgentText(task_type) == <<"No suitable agent found for task type: ", task_type>>

\* what a call of route_task hands back to its caller
Returned(text) == [raised |-> FALSE, text |-> text]
Raised(text) == [raised |-> TRUE, text |-> text]
NoOutcome == [raised |-> FALSE, text |-> <<>>]

\* the result of _execute_task_with_agent: a text, or an exception's str()
ExecOk(text) == [ok |-> TRUE, text |-> text]
ExecRaise(text) == [ok |-> FALSE, text |-> text]

\* _execute_task_with_agent, line 71
CompletedText(agent_id, result) == <<"Task completed by ", agent_id, ": ", result>>
\* _execute_task_with_agent, line 75
DelegatedText(agent_id, result) == <<"Task delegated to ", agent_id, ": ">> \o result

\* mutant of route_task, line 30: the error text does not name the agent
RouteCatchNoAgent(best_agent, exec) ==
    IF exec.ok
    THEN Returned(exec.text)
    ELSE Returned(<<"Error executing task: ">> \o exec.text)

\* mutant of route_task: no try / except, the exception leaves route_task
RouteCatchPropagates(best_agent, exec) ==
    IF exec.ok THEN Returned(exec.text) ELSE Raised(exec.text)

\* route_task, lines 26-30: try / except Exception around the execution
RouteCatch(best_agent, exec) ==
    IF exec.ok
    THEN Returned(exec.text)
    ELSE Returned(<<"Error executing task with agent ", best_agent, ": ">>
                  \o exec.text)

\* A2AClient.delegate_task, line 18: the ValueError of an unknown target
TargetNotFoundText(target) == <<"Agent ", target, " not found in registry">>
\* A2AClient.delegate_task, line 36: the wrapped transport failure
DelegationFailedText(target, cause) ==
    <<"Failed to delegate task to ", target, ": ", cause>>
\* A2AClient._send_message: the delivery result of the transport
DeliveredResult(target) == <<"delivered", "Message delivered to ", target>>

\* which branch of _execute_task_with_agent runs, line 67
IsLocal(ag, agent_id) == DictHas(ag, agent_id)

\* no execution has ended yet
NoExec == [ok |-> TRUE, text |-> <<>>]

\* mutant of _execute_task_with_agent: "if" without "else", a local agent's
\* task is delegated as well
ExecuteBeginFallThrough(ag, reg, agent_id) ==
    IF IsLocal(ag, agent_id)
    THEN [pc |-> "invoking",
          invoked |-> << <<"local", agent_id>>, <<"remote", agent_id>> >>,
          exec |-> NoExec]
    ELSE IF GetAgent(reg, agent_id) = <<>>
    THEN [pc |-> "done", invoked |-> << <<"remote", agent_id>> >>,
          exec |-> ExecRaise(TargetNotFoundText(agent_id))]
    ELSE [pc |-> "delegating", invoked |-> << <<"remote", agent_id>> >>,
          exec |-> NoExec]

\* _execute_task_with_agent up to its first suspension: the local branch
\* suspends in agent.process_task; the remote branch resolves the target in
\* delegate_task and suspends in the transport, or raises for an unknown
\* target.  invoked lists the process_task and delegate_task calls made.
ExecuteBegin(ag, reg, agent_id) ==
    IF IsLocal(ag, agent_id)
    THEN [pc |-> "invoking", invoked |-> << <<"local", agent_id>> >>,
          exec |-> NoExec]
    ELSE IF GetAgent(reg, agent_id) = <<>>
    THEN [pc |-> "done", invoked |-> << <<"remote", agent_id>> >>,
          exec |-> ExecRaise(TargetNotFoundText(agent_id))]
    ELSE [pc |-> "delegating", invoked |-> << <<"remote", agent_id>> >>,
          exec |-> NoExec]

\* route_task, line 22: 'not best_agent' holds for None and for the empty id
Falsy(agent_id) == agent_id = None \/ agent_id = ""

\* route_task up to its first suspension: selection, then the start of the
\* execution.  pc "done" means route_task returned without suspending.
RouteBegin(ag, rules, reg, task) ==
    LET sel == SelectBestAgent(ag, rules, reg, task.type, task.capabilities)
        base == [agent |-> sel.agent, step |-> sel.step, queries |-> sel.queries]
        ex == ExecuteBegin(ag, reg, sel.agent)
    IN  IF Falsy(sel.agent)
        THEN base @@ [pc |-> "done", invoked |-> <<>>, exec |-> NoExec,
                      outcome |-> Returned(NoAgentText(task.type))]
        ELSE base @@ [pc |-> ex.pc, invoked |-> ex.invoked, exec |-> ex.exec,
                      outcome |-> IF ex.pc = "done"
                                  THEN RouteCatch(sel.agent, ex.exec)
                                  ELSE NoOutcome]

\* AgentRouter.register_agent: self.agents[agent_id] = agent
RegisterAgent(ag, agent_id, agent) == DictPut(ag, agent_id, agent)

\* mutant of AgentRouter.unregister_agent: del without the membership test
UnregisterAgentUnguarded(ag, agent_id) == DictDelItem(ag, agent_id)

\* AgentRouter.unregister_agent: if agent_id in self.agents: del ...
UnregisterAgent(ag, agent_id) ==
    IF DictHas(ag, agent_id)
    THEN DictDelItem(ag, agent_id)
    ELSE [dict |-> ag, raised |-> FALSE]

\* add_routing_rule: self.routing_rules[task_type] = agent_ids
AddRoutingRule(rules, task_type, agent_ids) ==
    MapPut(rules, task_type, agent_ids)

\* remove_routing_rule: if task_type in self.routing_rules: del ...
RemoveRoutingRule(rules, task_type) ==
    IF task_type \in DOMAIN rules THEN MapDel(rules, task_type) ELSE rules

\* get_agent_status, lines 103-107: the entry of one handle; query is what
\* the handle's get_status does: it returns the status it names, it raises,
\* or the handle has no get_status
StatusEntry(query) ==
    IF query = "raises" THEN [status |-> "error", error |-> <<"status error">>]
    ELSE IF query = "missing" THEN [status |-> "unknown", error |-> <<>>]
    ELSE [status |-> query, error |-> <<>>]

\* mutant of get_agent_status: no try around the query
RECURSIVE GetAgentStatusAborts(_, _)
GetAgentStatusAborts(ag, queries) ==
    IF ag = <<>> THEN [raised |-> FALSE, status |-> <<>>]
    ELSE IF queries[ag[1][1]] = "raises" THEN [raised |-> TRUE, status |-> <<>>]
    ELSE LET rest == GetAgentStatusAborts(Tail(ag), queries)
         IN  [raised |-> rest.raised,
              status |-> IF rest.raised THEN <<>>
                         ELSE <<<<ag[1][1], StatusEntry(queries[ag[1][1]])>>>>
                                  \o rest.status]

\* get_agent_status: one entry per handle, in the order of self.agents
GetAgentStatus(ag, queries) ==
    [raised |-> FALSE,
     status |-> [i \in 1..Len(ag) |->
                    <<ag[i][1], StatusEntry(queries[ag[i][1]])>>]]

\* ----------------------------------------------------------- A2AClient
\* a message: the keys the client reads, the body under payload
Envelope(from, to, type, payload) ==
    [from |-> from, to |-> to, type |-> type, payload |-> payload]
\* a call of the transport hook _send_message(target_card, message)
Attempt(target, message) == [to |-> target, envelope |-> message]

\* A2AClient.send_direct_message, line 84: the wrapped transport failure
DirectFailedText(target, cause) ==
    <<"Failed to send message to ", target, ": ", cause>>

\* the message type delegate_task and send_direct_message build
SendType(kind) ==
    IF kind = "delegate" THEN "task_delegation" ELSE "direct_message"

\* mutant of delegate_task and send_direct_message: no test of the lookup
SendBeginUnchecked(reg, from, kind, target, body) ==
    LET message == Envelope(from, target, SendType(kind), <<body>>)
    IN  [pc |-> "sending", envelope |-> message,
         attempts |-> <<Attempt(target, message)>>, outcome |-> NoOutcome]

\* delegate_task and send_direct_message up to the await of _send_message
SendBegin(reg, from, kind, target, body) ==
    LET target_card == GetAgent(reg, target)
        message == Envelope(from, target, SendType(kind), <<body>>)
    IN  IF target_card = <<>>
        THEN [pc |-> "done", envelope |-> Envelope(None, None, None, <<>>),
              attempts |-> <<>>, outcome |-> Raised(TargetNotFoundText(target))]
        ELSE [pc |-> "sending", envelope |-> message,
              attempts |-> <<Attempt(target, message)>>, outcome |-> NoOutcome]

\* mutant of the try/except around _send_message: the failure is answered
\* as a result
SendCatchSwallows(kind, target, delivery) ==
    IF delivery.ok
    THEN Returned(delivery.text)
    ELSE Returned(<<"failed">>)

\* the try/except around _send_message in delegate_task and
\* send_direct_message
SendCatch(kind, target, delivery) ==
    IF delivery.ok
    THEN Returned(delivery.text)
    ELSE IF kind = "delegate"
         THEN Raised(DelegationFailedText(target, Head(delivery.text)))
         ELSE Raised(DirectFailedText(target, Head(delivery.text)))

\* status_listeners is a dict; a key iterator walks the dict's entries, where
\* del leaves a hole and a new key is added at the end (the entries of a dict
\* this small are not rebuilt)
Deleted == "<deleted>"
Keys(entries) == SelectSeq(entries, LAMBDA e : e # Deleted)

\* mutant of subscribe_to_status: a list of subscribers, appended to
SubscribeToStatusAppends(entries, agent_id) == Append(entries, agent_id)

\* subscribe_to_status: self.status_listeners[agent_id] = True
SubscribeToStatus(entries, agent_id) ==
    IF \E i \in 1..Len(entries) : entries[i] = agent_id
    THEN entries
    ELSE Append(entries, agent_id)

\* unsubscribe_from_status: if agent_id in self.status_listeners: del ...
UnsubscribeFromStatus(entries, agent_id) ==
    [i \in 1..Len(entries) |->
        IF entries[i] = agent_id THEN Deleted ELSE entries[i]]

\* iter(self.status_listeners.keys())
IterStart(entries) ==
    [used |-> Len(Keys(entries)), pos |-> 1, len |-> Len(Keys(entries))]

SizeChangedText == <<"dictionary changed size during iteration">>
KeysChangedText == <<"dictionary keys changed during iteration">>

\* next() of the key iterator on the dict as it is now
IterNext(entries, it) ==
    LET rest == { i \in it.pos..Len(entries) : entries[i] # Deleted }
        i == CHOOSE m \in rest : \A n \in rest : m <= n
    IN  IF Len(Keys(entries)) # it.used
        THEN [kind |-> "error", key |-> None, text |-> SizeChangedText,
              iter |-> it]
        ELSE IF rest = {}
        THEN [kind |-> "stop", key |-> None, text |-> <<>>, iter |-> it]
        ELSE IF it.len = 0
        THEN [kind |-> "error", key |-> None, text |-> KeysChangedText,
              iter |-> it]
        ELSE [kind |-> "key", key |-> entries[i], text |-> <<>>,
              iter |-> [it EXCEPT !.pos = i + 1, !.len = it.len - 1]]

\* mutant of _send_status_update: the message is sent without the lookup
SendStatusUpdateUnresolved(reg, target, message) ==
    <<Attempt(target, message)>>

\* _send_status_update: the transport calls it makes
SendStatusUpdate(reg, target, message) ==
    IF GetAgent(reg, target) # <<>>
    THEN <<Attempt(target, message)>>
    ELSE <<>>

\* broadcast_status from the next() of its for loop to the next await of
\* _send_message, or to its end
RECURSIVE BroadcastRun(_, _, _)
BroadcastRun(reg, entries, op) ==
    LET nx == IterNext(entries, op.iter)
        sent == SendStatusUpdate(reg, nx.key, op.envelope)
        at == [op EXCEPT !.iter = nx.iter, !.current = nx.key]
    IN  IF nx.kind = "error"
        THEN [op EXCEPT !.pc = "done", !.current = None,
                        !.outcome = Raised(nx.text)]
        ELSE IF nx.kind = "stop"
        THEN [op EXCEPT !.pc = "done", !.current = None,
                        !.outcome = Returned(<<>>)]
        ELSE IF sent = <<>>
        THEN BroadcastRun(reg, entries, at)
        ELSE [at EXCEPT !.pc = "sending", !.attempts = @ \o sent]

\* mutant of the except clause in the loop of broadcast_status: the failure
\* ends the broadcast
BroadcastCatchRaises(op, delivery) ==
    IF delivery.ok
    THEN op
    ELSE [op EXCEPT !.pc = "done", !.outcome = Raised(delivery.text)]

\* the try/except in the loop of broadcast_status: a failure is printed
BroadcastCatch(op, delivery) ==
    IF delivery.ok
    THEN op
    ELSE [op EXCEPT !.reported = Append(@, <<op.current, Head(delivery.text)>>)]

\* broadcast_status after _send_message has returned or raised
BroadcastResume(reg, entries, op, delivery) ==
    LET caught == BroadcastCatch(op, delivery)
    IN  IF caught.pc = "done" THEN caught ELSE BroadcastRun(reg, entries, caught)

\* BaseAgent._register_with_registry: the card carries the agent's id and
\* its capabilities
RegisterWithRegistry(reg, agent_id, capabilities) ==
    RegisterCard(reg, Card(agent_id, capabilities))

\* BaseAgent.shutdown after set_status has returned or raised: the directory
\* it leaves; op is the broadcast of set_status
ShutdownUnregisters(reg, agent_id, op) ==
    IF op.pc = "done" /\ ~op.outcome.raised
    THEN UnregisterCard(reg, agent_id).dict
    ELSE reg

\* an acknowledgement: a dict of texts
Ack(status) == << <<"status", <<status>> >> >>
AckMessage(status, message) ==
    << <<"status", <<status>> >>, <<"message", <<message>> >> >>
ErrorAck(message_type) ==
    << <<"error", <<"Unknown message type: ", message_type>> >> >>

\* _handle_task_delegation
HandleTaskDelegation(queue, message) ==
    [queue |-> Append(queue, message),
     outcome |-> Returned(AckMessage("accepted", "Task delegation received"))]

\* mutant of _handle_status_update: the update is put into the queue and the
\* print is left out
HandleStatusUpdateEnqueues(queue, message) ==
    [queue |-> Append(queue, message), outcome |-> Returned(Ack("received"))]

\* str() of the KeyError of a dict that lacks key
KeyErrorText(key) == <<"'", key, "'">>
\* the print of a handler reads message['from'] and then message[body]; a
\* message without sender has from = None, one without body payload = <<>>.
\* The keys that are missing, in the order they are read
MissingKeys(message, body) ==
    (IF message.from = None THEN <<"from">> ELSE <<>>)
        \o (IF message.payload = <<>> THEN <<body>> ELSE <<>>)

\* _handle_status_update: the print, line 133, then the acknowledgement
HandleStatusUpdate(queue, message) ==
    IF MissingKeys(message, "status") # <<>>
    THEN [queue |-> queue,
          outcome |-> Raised(KeyErrorText(MissingKeys(message, "status")[1]))]
    ELSE [queue |-> queue, outcome |-> Returned(Ack("received"))]

\* _handle_direct_message: the print, line 138, then the put and the
\* acknowledgement
HandleDirectMessage(queue, message) ==
    IF MissingKeys(message, "content") # <<>>
    THEN [queue |-> queue,
          outcome |-> Raised(KeyErrorText(MissingKeys(message, "content")[1]))]
    ELSE [queue |-> Append(queue, message),
          outcome |-> Returned(Ack("received"))]

\* handle_incoming_message
HandleIncomingMessage(queue, message) ==
    IF message.type = "task_delegation"
    THEN HandleTaskDelegation(queue, message)
    ELSE IF message.type = "status_update"
    THEN HandleStatusUpdate(queue, message)
    ELSE IF message.type = "direct_message"
    THEN HandleDirectMessage(queue, message)
    ELSE [queue |-> queue, outcome |-> Returned(ErrorAck(message.type))]

\* mutant of the queue's get: the newest item is taken
QueueGetLast(queue) ==
    [item |-> queue[Len(queue)], queue |-> SubSeq(queue, 1, Len(queue) - 1)]

\* receive_messages, line 107: what message_queue.get() takes from a queue that
\* holds an item, the oldest one
QueueGet(queue) == [item |-> Head(queue), queue |-> Tail(queue)]

\* receive_messages, line 107: the get task of wait_for has taken the oldest
\* message; the call itself has not been resumed yet
ReceiveTook(op, inbox) ==
    [op EXCEPT !.pc = "taking", !.inbox_before = inbox,
               !.inbox_after = QueueGet(inbox).queue]

\* receive_messages, line 108: the call is resumed and returns the message
\* its get took
ReceiveGot(op) ==
    [op EXCEPT !.pc = "done", !.received = <<QueueGet(op.inbox_before).item>>,
               !.outcome = Returned(<<"message">>)]

\* mutant of the timeout branch: the timeout reaches the caller
ReceiveExpiredRaises(op) ==
    [op EXCEPT !.pc = "done", !.outcome = Raised(<<"TimeoutError">>)]

\* receive_messages, lines 109-110: the timeout is caught and None returned
ReceiveExpired(op) ==
    [op EXCEPT !.pc = "done", !.received = <<>>, !.outcome = Returned(<<None>>)]

\* what the collaborators can answer
AgentResults == {"result"}
AgentErrors == {"agent error"}
DeliveryErrors == {"delivery error"}

\* ------------------------------------------------- ConversationManager
\* the three dicts of the manager, passed through one handler together
Store(st, hi, ac) == [state |-> st, history |-> hi, active |-> ac]

\* _initialize_conversation
InitializeConversation(S, user_id, t) ==
    Store(MapPut(S.state, user_id,
                 [started_at |-> t, context |-> EmptyMap,
                  preferences |-> EmptyMap, last_activity |-> t]),
          MapPut(S.history, user_id, <<>>),
          MapPut(S.active, user_id, TRUE))

\* mutant of _log_message: the entry is inserted at the front of the log
LogMessagePrepend(S, user_id, role, content, t) ==
    LET h0 == IF user_id \in DOMAIN S.history
              THEN S.history
              ELSE MapPut(S.history, user_id, <<>>)
        message == [role |-> role, content |-> content]
    IN  [state |-> IF user_id \in DOMAIN S.state
                   THEN [S.state EXCEPT ![user_id].last_activity = t]
                   ELSE S.state,
         history |-> [h0 EXCEPT ![user_id] = <<message>> \o @],
         active |-> S.active]

\* mutant of _log_message: the entry goes into the log of every user
LogMessageEveryLog(S, user_id, role, content, t) ==
    LET h0 == IF user_id \in DOMAIN S.history
              THEN S.history
              ELSE MapPut(S.history, user_id, <<>>)
        message == [role |-> role, content |-> content]
    IN  Store(IF user_id \in DOMAIN S.state
              THEN [S.state EXCEPT ![user_id].last_activity = t]
              ELSE S.state,
              [u \in DOMAIN h0 |-> Append(h0[u], message)],
              S.active)

\* _log_message
LogMessage(S, user_id, role, content, t) ==
    LET h0 == IF user_id \in DOMAIN S.history
              THEN S.history
              ELSE MapPut(S.history, user_id, <<>>)
        \* the entry's timestamp is written and never read: left out
        message == [role |-> role, content |-> content]
    IN  Store(IF user_id \in DOMAIN S.state
              THEN [S.state EXCEPT ![user_id].last_activity = t]
              ELSE S.state,
              [h0 EXCEPT ![user_id] = Append(@, message)],
              S.active)

\* history[-n:] for n > 0
LastN(h, n) == IF Len(h) <= n THEN h ELSE SubSeq(h, Len(h) - n + 1, Len(h))

\* mutant of _analyze_user_message: the window is taken from the start of
\* the log
AnalyzeUserMessageOldest(S, user_id, message) ==
    LET c == Classify(message) IN
    [type |-> c.type,
     message |-> message,
     user_id |-> user_id,
     capabilities |-> c.capabilities,
     context |-> IF user_id \in DOMAIN S.state
                 THEN S.state[user_id].context ELSE EmptyMap,
     conversation_history |->
         IF user_id \in DOMAIN S.history
         THEN SubSeq(S.history[user_id], 1,
                     IF Len(S.history[user_id]) < HistoryWindow
                     THEN Len(S.history[user_id]) ELSE HistoryWindow)
         ELSE <<>>]

\* _analyze_user_message
AnalyzeUserMessage(S, user_id, message) ==
    LET c == Classify(message) IN
    [type |-> c.type,
     message |-> message,
     user_id |-> user_id,
     capabilities |-> c.capabilities,
     context |-> IF user_id \in DOMAIN S.state
                 THEN S.state[user_id].context ELSE EmptyMap,
     conversation_history |-> IF user_id \in DOMAIN S.history
                              THEN LastN(S.history[user_id], HistoryWindow)
                              ELSE <<>>]

\* process_user_input, lines 17-25: up to the call of route_task
ProcessBegin(S, user_id, message, t) ==
    LET S1 == IF user_id \notin DOMAIN S.state
              THEN InitializeConversation(S, user_id, t) ELSE S
        S2 == LogMessage(S1, user_id, "user", message, t)
    IN  [store |-> S2, task |-> AnalyzeUserMessage(S2, user_id, message)]

\* mutant of process_user_input: a message makes its session active
ProcessEndReactivates(S, user_id, outcome, t) ==
    LET S1 == IF outcome.raised
              THEN S
              ELSE LogMessage(S, user_id, "assistant", outcome.text, t)
    IN  [S1 EXCEPT !.active = MapPut(S1.active, user_id, TRUE)]

\* process_user_input, lines 28-33: route_task has returned or raised
ProcessEnd(S, user_id, outcome, t) ==
    IF outcome.raised
    THEN S
    ELSE LogMessage(S, user_id, "assistant", outcome.text, t)

\* mutant of get_conversation_history: the oldest entries are returned
GetConversationHistoryOldest(S, user_id, limit) ==
    LET history == IF user_id \in DOMAIN S.history
                   THEN S.history[user_id] ELSE <<>>
    IN  IF limit # <<>> /\ limit[1] # 0 /\ limit[1] < Len(history)
        THEN SubSeq(history, 1, limit[1])
        ELSE history

\* get_conversation_history, limit an Optional[int] that is not negative:
\* 'if limit' is false for None and for 0
GetConversationHistory(S, user_id, limit) ==
    LET history == IF user_id \in DOMAIN S.history
                   THEN S.history[user_id] ELSE <<>>
    IN  IF limit # <<>> /\ limit[1] # 0
        THEN LastN(history, limit[1])
        ELSE history

\* dict.update
MapUpdate(f, g) ==
    [k \in (DOMAIN f) \cup (DOMAIN g) |-> IF k \in DOMAIN g THEN g[k] ELSE f[k]]

\* mutant of update_conversation_context: the context is replaced
UpdateConversationContextReplaces(S, user_id, context_updates) ==
    IF user_id \in DOMAIN S.state
    THEN [S EXCEPT !.state[user_id].context = context_updates]
    ELSE S

\* update_conversation_context
UpdateConversationContext(S, user_id, context_updates) ==
    IF user_id \in DOMAIN S.state
    THEN [S EXCEPT !.state[user_id].context = MapUpdate(@, context_updates)]
    ELSE S

\* _analyze_user_message, line 88: a task holds the context dict of its
\* session, not a copy; cs are the calls, and those whose task shares the dict
\* of user_id show the context it has in S
SharedContext(cs, S, user_id) ==
    [c \in DOMAIN cs |->
        IF cs[c].shares /\ cs[c].user = user_id /\ user_id \in DOMAIN S.state
        THEN [cs[c] EXCEPT !.task.context = S.state[user_id].context]
        ELSE cs[c]]

\* _cleanup_user_data: the sessions of users are deleted, and the tasks that
\* hold their context dicts hold them alone
DropShared(cs, users) ==
    [c \in DOMAIN cs |->
        IF cs[c].user \in users THEN [cs[c] EXCEPT !.shares = FALSE]
        ELSE cs[c]]

\* start_multi_agent_conversation: the context gets the key multi_agent
MultiAgentText(agent_ids, topic) ==
    <<"Started multi-agent conversation with ", Len(agent_ids),
      " agents on topic: ", topic>>
StartMultiAgentConversation(S, user_id, agent_ids, topic, t) ==
    LET multi_context == [type |-> "multi_agent", agents |-> agent_ids,
                          topic |-> topic, started_at |-> t]
    IN  [store |-> UpdateConversationContext(
                       S, user_id, [k \in {"multi_agent"} |-> multi_context]),
         result |-> MultiAgentText(agent_ids, topic)]

\* mutant of set_user_preferences: the session is initialized on every call
SetUserPreferencesResets(S, user_id, preferences, t) ==
    [InitializeConversation(S, user_id, t)
        EXCEPT !.state[user_id].preferences = preferences]

\* set_user_preferences
SetUserPreferences(S, user_id, preferences, t) ==
    LET S1 == IF user_id \notin DOMAIN S.state
              THEN InitializeConversation(S, user_id, t) ELSE S
    IN  [S1 EXCEPT !.state[user_id].preferences = preferences]

\* mutant of end_conversation: the session's data is dropped
EndConversationDrops(S, user_id) ==
    IF user_id \in DOMAIN S.active
    THEN [S EXCEPT !.active[user_id] = FALSE, !.history[user_id] = <<>>]
    ELSE S

\* end_conversation
EndConversation(S, user_id) ==
    IF user_id \in DOMAIN S.active
    THEN [S EXCEPT !.active[user_id] = FALSE]
    ELSE S

\* the sum of the lengths of the logs of users
RECURSIVE TotalMessages(_, _)
TotalMessages(history, users) ==
    IF users = {} THEN 0
    ELSE LET u == CHOOSE x \in users : TRUE IN
         Len(history[u]) + TotalMessages(history, users \ {u})

\* get_system_stats, without the router's status
GetSystemStats(S) ==
    [total_conversations |-> Cardinality(DOMAIN S.state),
     active_conversations |->
         Cardinality({u \in DOMAIN S.active : S.active[u]}),
     total_messages |-> TotalMessages(S.history, DOMAIN S.history)]

\* _cleanup_user_data
CleanupUserData(S, user_id) ==
    Store(IF user_id \in DOMAIN S.state THEN MapDel(S.state, user_id) ELSE S.state,
          IF user_id \in DOMAIN S.history
          THEN MapDel(S.history, user_id) ELSE S.history,
          IF user_id \in DOMAIN S.active THEN MapDel(S.active, user_id) ELSE S.active)

\* mutant of the first loop: a session as old as the threshold is collected
InactiveUsersInclusive(S, hours, t) ==
    {u \in DOMAIN S.state : S.state[u].last_activity <= t - hours * SecondsPerHour}

\* cleanup_inactive_conversations: the users the first loop collects
InactiveUsers(S, hours, t) ==
    {u \in DOMAIN S.state : S.state[u].last_activity < t - hours * SecondsPerHour}

\* cleanup_inactive_conversations: the second loop, over the collected users
RECURSIVE CleanupAll(_, _)
CleanupAll(S, inactive_users) ==
    IF inactive_users = {} THEN S
    ELSE LET u == CHOOSE x \in inactive_users : TRUE IN
         CleanupAll(CleanupUserData(S, u), inactive_users \ {u})

\* ------------------------------------------------------------- state
CurStore == Store(conversation_state, conversation_history, active_sessions)
SetStore(S) ==
    /\ conversation_state' = S.state
    /\ conversation_history' = S.history
    /\ active_sessions' = S.active
sessionVars == <<conversation_state, conversation_history, active_sessions>>
routerVars == <<agents, routing_rules, registry>>
clientVars == <<status_listeners, message_queue, ops, inbox_log>>
dirVars == <<last_op, latest>>

\* what a route call selects from
Config == [agents |-> agents, rules |-> routing_rules, registry |-> registry]
NoConfig == [agents |-> <<>>, rules |-> EmptyMap, registry |-> <<>>]

CallIds == 1..MaxCalls
NoTask == [type |-> "none", capabilities |-> <<>>]
\* what a process call finds for its user: the context and the log
NoSession == [context |-> EmptyMap, history |-> <<>>, active |-> <<>>]
SessionOf(S, user_id) ==
    [context |-> IF user_id \in DOMAIN S.state
                 THEN S.state[user_id].context ELSE EmptyMap,
     history |-> IF user_id \in DOMAIN S.history
                 THEN S.history[user_id] ELSE <<>>,
     active |-> IF user_id \in DOMAIN S.active
                THEN <<S.active[user_id]>> ELSE <<>>]
NoCall == [op |-> "none", user |-> NoUser, arg |-> <<>>, result |-> <<>>]
\* the operation removed a routing rule
RuleRemoved(op) == op.op = "remove_routing_rule" /\ op.result = <<TRUE>>
\* a call not made yet; rule_removed tells whether last_call, when a route
\* call starts, is an operation that removed a routing rule
IdleCall ==
    [pc |-> "idle", entry |-> "none", user |-> NoUser, message |-> <<>>,
     task |-> NoTask, agent |-> None, step |-> "none", queries |-> <<>>,
     invoked |-> <<>>, exec |-> NoExec, outcome |-> NoOutcome,
     seen |-> NoConfig, session |-> NoSession, shares |-> FALSE,
     rule_removed |-> FALSE]

InFlight(c) == calls[c].pc \in {"invoking", "delegating"}
\* calls are numbered in arrival order
NextCall(c) == calls[c].pc = "idle" /\ \A d \in 1..(c - 1) : calls[d].pc # "idle"

\* the client calls, numbered in arrival order
OpIds == 1..MaxOps
NoEnvelope == [from |-> None, to |-> None, type |-> None, payload |-> <<>>]
NoIter == [used |-> 0, pos |-> 1, len |-> 0]
IdleOp ==
    [pc |-> "idle", kind |-> "none", target |-> None, envelope |-> NoEnvelope,
     listeners |-> <<>>, iter |-> NoIter, current |-> None,
     attempts |-> <<>>, delivery |-> NoExec, reported |-> <<>>,
     inbox_before |-> <<>>, inbox_after |-> <<>>, outcome |-> NoOutcome,
     client |-> None, waited |-> FALSE, received |-> <<>>]
NextOp(o) == ops[o].pc = "idle" /\ \A q \in 1..(o - 1) : ops[q].pc # "idle"

\* the clients after construction; the subscribers and the calls are those
\* of client c1
ClientIds == {"c1", "c2"}
NoInboxLog == [put |-> <<>>, got |-> <<>>]
NoStore == [state |-> EmptyMap, history |-> EmptyMap, active |-> EmptyMap]
ClientIdle ==
    /\ status_listeners = <<>>
    /\ message_queue = [self \in ClientIds |-> <<>>]
    /\ ops = [o \in OpIds |-> IdleOp]
    /\ inbox_log = [self \in ClientIds |-> NoInboxLog]
    /\ last_call = NoCall

\* the directory operations observed so far
DirIds == {"r1", "r2", "r3"}
NoDirOp ==
    [op |-> "none", agent_id |-> None, card |-> <<>>, before |-> <<>>,
     raised |-> FALSE]
DirIdle ==
    /\ last_op = NoDirOp
    /\ latest = [i \in DirIds |-> <<>>]

\* the configurations the session specifications start from
CapSearch == "web_search"
CapData == "data_analysis"
SessionLocalConfigs ==
    { <<>>, << <<"a1", Handle({CapSearch, CapData})>> >> }
SessionDirConfigs ==
    { <<>>, << <<"r1", Card("r1", {CapSearch})>> >> }

SessionInit ==
    /\ agents \in SessionLocalConfigs
    /\ routing_rules = EmptyMap
    /\ registry \in SessionDirConfigs
    /\ conversation_state = EmptyMap
    /\ conversation_history = EmptyMap
    /\ active_sessions = EmptyMap
    /\ now = 0
    /\ calls = [c \in CallIds |-> IdleCall]
    /\ ClientIdle
    /\ DirIdle

\* ------------------------------------------------------------ actions
\* process_user_input(user_id, message) until it suspends or returns
ProcessStart(c, user_id, message) ==
    /\ NextCall(c)
    /\ LET pb == ProcessBegin(CurStore, user_id, message, now)
           rb == RouteBegin(agents, routing_rules, registry, pb.task)
       IN  /\ SetStore(IF rb.pc = "done"
                       THEN ProcessEnd(pb.store, user_id, rb.outcome, now)
                       ELSE pb.store)
           /\ calls' = [calls EXCEPT ![c] =
                  [pc |-> rb.pc, entry |-> "process", user |-> user_id,
                   message |-> message, task |-> pb.task, agent |-> rb.agent,
                   step |-> rb.step, queries |-> rb.queries,
                   invoked |-> rb.invoked, exec |-> rb.exec,
                   outcome |-> rb.outcome, seen |-> Config,
                   session |-> SessionOf(CurStore, user_id),
                   shares |-> TRUE,
                   rule_removed |-> FALSE]]
    /\ UNCHANGED <<routerVars, now, clientVars, dirVars, last_call>>

\* route_task(task) called directly, until it suspends or returns
RouteStart(c, task) ==
    /\ NextCall(c)
    /\ LET rb == RouteBegin(agents, routing_rules, registry, task)
       IN  calls' = [calls EXCEPT ![c] =
                  [pc |-> rb.pc, entry |-> "route", user |-> NoUser,
                   message |-> <<>>, task |-> task, agent |-> rb.agent,
                   step |-> rb.step, queries |-> rb.queries,
                   invoked |-> rb.invoked, exec |-> rb.exec,
                   outcome |-> rb.outcome, seen |-> Config,
                   session |-> NoSession, shares |-> FALSE,
                   rule_removed |-> RuleRemoved(last_call)]]
    /\ UNCHANGED <<routerVars, sessionVars, now, clientVars, dirVars, last_call>>

\* the suspended execution ends with exec: route_task returns, and with it
\* process_user_input
Complete(c, exec) ==
    LET outcome == RouteCatch(calls[c].agent, exec) IN
    /\ calls' = [calls EXCEPT ![c].pc = "done", ![c].exec = exec,
                               ![c].outcome = outcome]
    /\ IF calls[c].entry = "process"
       THEN SetStore(ProcessEnd(CurStore, calls[c].user, outcome, now))
       ELSE UNCHANGED sessionVars
    /\ UNCHANGED <<routerVars, now, clientVars, dirVars, last_call>>

\* agent.process_task returns result
AgentReturns(c, result) ==
    /\ calls[c].pc = "invoking"
    /\ Complete(c, ExecOk(CompletedText(calls[c].agent, result)))

\* agent.process_task raises
AgentRaises(c, cause) ==
    /\ calls[c].pc = "invoking"
    /\ Complete(c, ExecRaise(<<cause>>))

\* A2AClient._send_message is the transport hook of the client: the stub in
\* the repository answers "delivered" at once, a transport put in its place
\* may suspend and may raise, which delegate_task's except clause wraps.
\* the transport delivers the delegation envelope
DeliveryReturns(c) ==
    /\ calls[c].pc = "delegating"
    /\ Complete(c, ExecOk(DelegatedText(calls[c].agent,
                                        DeliveredResult(calls[c].agent))))

\* the transport fails
DeliveryFails(c, cause) ==
    /\ calls[c].pc = "delegating"
    /\ Complete(c, ExecRaise(DelegationFailedText(calls[c].agent, cause)))

\* time passes
Tick ==
    /\ now < MaxTicks * SecondsPerHour
    /\ now' = now + SecondsPerHour
    /\ UNCHANGED <<routerVars, sessionVars, calls, clientVars, dirVars, last_call>>

\* cleanup_inactive_conversations(hours)
CleanupHours == {0, 1}
CleanupInactive(hours) ==
    /\ SetStore(CleanupAll(CurStore, InactiveUsers(CurStore, hours, now)))
    /\ calls' = DropShared(calls, InactiveUsers(CurStore, hours, now))
    /\ UNCHANGED <<routerVars, now, clientVars, dirVars, last_call>>

\* a manager operation, its arguments and what it returned
Called(op, user_id, arg, result) ==
    [op |-> op, user |-> user_id, arg |-> <<arg>>, result |-> result]

\* get_conversation_history(user_id, limit)
Limits == {<<>>, <<0>>, <<1>>, <<3>>, <<9>>}
GetHistory(user_id, limit) ==
    /\ last_call' = Called("history", user_id, limit,
                           GetConversationHistory(CurStore, user_id, limit))
    /\ UNCHANGED <<routerVars, sessionVars, now, calls, clientVars, dirVars>>

\* update_conversation_context(user_id, context_updates)
ContextUpdates ==
    { [k \in {"topic"} |-> "travel"],
      [k \in {"topic", "city"} |-> IF k = "topic" THEN "food" ELSE "rome"] }
UpdateContext(user_id, context_updates) ==
    /\ LET S == UpdateConversationContext(CurStore, user_id, context_updates)
       IN  /\ SetStore(S)
           /\ calls' = SharedContext(calls, S, user_id)
           /\ last_call' = Called("update_context", user_id, context_updates,
                                  <<>>)
    /\ UNCHANGED <<routerVars, now, clientVars, dirVars>>

\* start_multi_agent_conversation(user_id, agents, topic)
StartMultiAgent(user_id, agent_ids, topic) ==
    /\ LET started == StartMultiAgentConversation(CurStore, user_id, agent_ids,
                                                  topic, now)
       IN  /\ SetStore(started.store)
           /\ calls' = SharedContext(calls, started.store, user_id)
           /\ last_call' = Called("start_multi_agent", user_id,
                                  <<agent_ids, topic>>, <<started.result>>)
    /\ UNCHANGED <<routerVars, now, clientVars, dirVars>>

\* set_user_preferences(user_id, preferences)
Preferences ==
    { [k \in {"tone"} |-> "brief"], [k \in {"units"} |-> "metric"] }
SetPreferences(user_id, preferences) ==
    /\ LET S == SetUserPreferences(CurStore, user_id, preferences, now)
       IN  /\ SetStore(S)
           /\ last_call' = Called("set_preferences", user_id, preferences,
                                  <<>>)
    /\ UNCHANGED <<routerVars, now, calls, clientVars, dirVars>>

\* end_conversation(user_id)
End(user_id) ==
    /\ LET S == EndConversation(CurStore, user_id)
       IN  /\ SetStore(S)
           /\ last_call' = Called("end", user_id, None, <<>>)
    /\ UNCHANGED <<routerVars, now, calls, clientVars, dirVars>>

\* get_system_stats()
SystemStats ==
    /\ last_call' = Called("stats", NoUser, None, <<GetSystemStats(CurStore)>>)
    /\ UNCHANGED <<routerVars, sessionVars, now, calls, clientVars, dirVars>>

Completions ==
    \E c \in CallIds :
        \/ \E r \in AgentResults : AgentReturns(c, r)
        \/ \E e \in AgentErrors : AgentRaises(c, e)
        \/ DeliveryReturns(c)
        \/ \E e \in DeliveryErrors : DeliveryFails(c, e)

\* ------------------------------------------------------ specifications
\* concurrent users, overlapping calls, cleanup at any time
Next ==
    \/ \E c \in CallIds, u \in Users, m \in SessionMessages : ProcessStart(c, u, m)
    \/ Completions
    \/ Tick
    \/ \E h \in CleanupHours : CleanupInactive(h)
Spec == SessionInit /\ [][Next]_vars

\* overlapping calls handled by a local agent, no cleanup
OverlapInit ==
    /\ SessionInit
    /\ agents # <<>>
OverlapNext ==
    \/ \E c \in CallIds, u \in Users, m \in SessionMessages : ProcessStart(c, u, m)
    \/ \E c \in CallIds, r \in AgentResults : AgentReturns(c, r)
    \/ \E c \in CallIds, e \in AgentErrors : AgentRaises(c, e)
OverlapSpec == OverlapInit /\ [][OverlapNext]_vars

\* every caller awaits its call before it issues the next one for that user
SeqNext ==
    \/ \E c \in CallIds, u \in Users, m \in SessionMessages :
          /\ \A d \in CallIds : InFlight(d) => calls[d].user # u
          /\ ProcessStart(c, u, m)
    \/ Completions
SeqSpec == SessionInit /\ [][SeqNext]_vars

\* process calls with every kind of message, each awaited by its caller
ClassifyNext ==
    \/ \E c \in CallIds, u \in Users, m \in Messages :
          /\ \A d \in CallIds : InFlight(d) => calls[d].user # u
          /\ ProcessStart(c, u, m)
    \/ Completions
ClassifySpec == SessionInit /\ [][ClassifyNext]_vars

\* the manager with one local agent, and the sessions a served user has:
\* none, or the one three answered process calls leave
AdminAgents == << <<"a1", Handle({CapSearch, CapData})>> >>
Served(S, user_id, message) ==
    ProcessEnd(ProcessBegin(S, user_id, message, 0).store, user_id,
               RouteCatch("a1", ExecOk(CompletedText("a1", "result"))), 0)
AdminStores ==
    {NoStore, Served(Served(Served(NoStore, "u1", MsgHi), "u1", MsgFind),
                     "u1", MsgHi)}
AdminInit ==
    /\ agents = AdminAgents
    /\ routing_rules = EmptyMap
    /\ registry = <<>>
    /\ \E S \in AdminStores :
          /\ conversation_state = S.state
          /\ conversation_history = S.history
          /\ active_sessions = S.active
    /\ now = 0
    /\ calls = [c \in CallIds |-> IdleCall]
    /\ ClientIdle
    /\ DirIdle

\* process calls, each awaited by its caller, and changes of the context
WindowNext ==
    \/ \E c \in CallIds, u \in Users, m \in SessionMessages :
          /\ \A d \in CallIds : InFlight(d) => calls[d].user # u
          /\ ProcessStart(c, u, m)
    \/ \E c \in CallIds, r \in AgentResults : AgentReturns(c, r)
    \/ \E c \in CallIds, e \in AgentErrors : AgentRaises(c, e)
    \/ \E u \in Users, patch \in ContextUpdates : UpdateContext(u, patch)
WindowSpec == AdminInit /\ [][WindowNext]_vars

\* process calls, each awaited by its caller, and reads of the log
HistoryNext ==
    \/ \E c \in CallIds, u \in Users, m \in SessionMessages :
          /\ \A d \in CallIds : InFlight(d) => calls[d].user # u
          /\ ProcessStart(c, u, m)
    \/ \E c \in CallIds, r \in AgentResults : AgentReturns(c, r)
    \/ \E c \in CallIds, e \in AgentErrors : AgentRaises(c, e)
    \/ \E u \in Users, limit \in Limits : GetHistory(u, limit)
HistorySpec == AdminInit /\ [][HistoryNext]_vars

\* answered process calls and the operations that change a session: u1 is
\* served, u2 is a user who never gets a session
AdminNext ==
    \/ \E c \in CallIds :
          /\ \A d \in CallIds : ~InFlight(d)
          /\ ProcessStart(c, "u1", MsgHi)
    \/ \E c \in CallIds, r \in AgentResults : AgentReturns(c, r)
    \/ \E u \in Users, patch \in ContextUpdates : UpdateContext(u, patch)
    \/ \E prefs \in Preferences : SetPreferences("u1", prefs)
    \/ \E u \in Users : End(u)
AdminSpec == AdminInit /\ [][AdminNext]_vars

\* process calls, the passing of time, cleanup at any time and the statistics
CleanupNext ==
    \/ \E c \in CallIds, u \in Users :
          /\ \A d \in CallIds : InFlight(d) => calls[d].user # u
          /\ ProcessStart(c, u, MsgHi)
    \/ \E c \in CallIds, r \in AgentResults : AgentReturns(c, r)
    \/ Tick
    \/ \E hours \in CleanupHours : CleanupInactive(hours)
    \/ SystemStats
CleanupSpec == AdminInit /\ [][CleanupNext]_vars

\* the manager an hour after the sessions it holds were last served
LifeInit ==
    /\ agents = AdminAgents
    /\ routing_rules = EmptyMap
    /\ registry = <<>>
    /\ \E S \in AdminStores :
          /\ conversation_state = S.state
          /\ conversation_history = S.history
          /\ active_sessions = S.active
    /\ now = SecondsPerHour
    /\ calls = [c \in CallIds |-> IdleCall]
    /\ ClientIdle
    /\ DirIdle

\* every operation of the manager, on one user
LifeNext ==
    \/ \E c \in CallIds :
          /\ \A d \in CallIds : ~InFlight(d)
          /\ ProcessStart(c, "u1", MsgHi)
    \/ \E c \in CallIds, r \in AgentResults : AgentReturns(c, r)
    \/ \E patch \in ContextUpdates : UpdateContext("u1", patch)
    \/ StartMultiAgent("u1", <<"a1">>, "travel")
    \/ SetPreferences("u1", [k \in {"tone"} |-> "brief"])
    \/ End("u1")
    \/ GetHistory("u1", <<1>>)
    \/ SystemStats
    \/ \E hours \in CleanupHours : CleanupInactive(hours)
LifeSpec == LifeInit /\ [][LifeNext]_vars

\* one route_task call from every router configuration
RouteLocalIds == {"a1", "a2"}
RouteDirIds == {"a1", "r1"}
RouteRuleIds == {"a1", "a2", "r1"}
HandleCaps == {{}, {CapSearch}, {CapSearch, CapData}}
CardCaps == {{CapSearch}, {CapData}, {CapSearch, CapData}}
RouteTypes == {"research", "general"}
RouteCaps ==
    { <<>>, <<CapSearch>>, <<CapData>>, <<CapSearch, CapData>>,
      <<CapData, CapSearch>> }
RouteTasks == [type : RouteTypes, capabilities : RouteCaps]

\* the dicts with at most two entries, keys from ids, values from vals
Dicts(ids, vals) ==
    {<<>>}
    \cup { << <<i, v>> >> : i \in ids, v \in vals }
    \cup UNION { { << <<i, v>>, <<j, w>> >> :
                      j \in ids \ {i}, v \in vals, w \in vals } : i \in ids }
Cards(ids) ==
    {<<>>}
    \cup { << <<i, Card(i, v)>> >> : i \in ids, v \in CardCaps }
    \cup UNION { { << <<i, Card(i, v)>>, <<j, Card(j, w)>> >> :
                      j \in ids \ {i}, v \in CardCaps, w \in CardCaps } :
                  i \in ids }
RuleLists ==
    {<<>>} \cup { <<i>> : i \in RouteRuleIds }
           \cup UNION { { <<i, j>> : j \in RouteRuleIds \ {i} } :
                         i \in RouteRuleIds }
RuleTables == {EmptyMap} \cup { [t \in {"research"} |-> l] : l \in RuleLists }

RouteInit ==
    /\ agents \in Dicts(RouteLocalIds, { Handle(v) : v \in HandleCaps })
    /\ routing_rules \in RuleTables
    /\ registry \in Cards(RouteDirIds)
    /\ conversation_state = EmptyMap
    /\ conversation_history = EmptyMap
    /\ active_sessions = EmptyMap
    /\ now = 0
    /\ calls = [c \in CallIds |-> IdleCall]
    /\ ClientIdle
    /\ DirIdle

RouteNext ==
    \/ \E c \in CallIds, task \in RouteTasks :
          /\ \A d \in CallIds : calls[d].pc = "idle"
          /\ RouteStart(c, task)
    \/ Completions
RouteSpec == RouteInit /\ [][RouteNext]_vars

\* ------------------------------------------- router and directory updates
\* AgentRouter.register_agent(agent_id, agent)
RouterRegister(agent_id, agent) ==
    /\ agents' = RegisterAgent(agents, agent_id, agent)
    /\ UNCHANGED <<routing_rules, registry, sessionVars, now, calls,
                   clientVars, dirVars, last_call>>

\* AgentRouter.unregister_agent(agent_id)
RouterUnregister(agent_id) ==
    /\ agents' = UnregisterAgent(agents, agent_id).dict
    /\ last_call' = [op |-> "unregister_agent", user |-> NoUser,
                     arg |-> <<agent_id>>,
                     result |-> <<UnregisterAgent(agents, agent_id).raised>>]
    /\ UNCHANGED <<routing_rules, registry, sessionVars, now, calls,
                   clientVars, dirVars>>

\* AgentRouter.add_routing_rule(task_type, agent_ids)
RouterAddRule(task_type, agent_ids) ==
    /\ routing_rules' = AddRoutingRule(routing_rules, task_type, agent_ids)
    /\ last_call' = [op |-> "add_routing_rule", user |-> NoUser,
                     arg |-> <<task_type, agent_ids>>, result |-> <<>>]
    /\ UNCHANGED <<agents, registry, sessionVars, now, calls, clientVars,
                   dirVars>>

\* AgentRouter.remove_routing_rule(task_type); the result tells whether a
\* rule was there to remove
RouterRemoveRule(task_type) ==
    /\ routing_rules' = RemoveRoutingRule(routing_rules, task_type)
    /\ last_call' = [op |-> "remove_routing_rule", user |-> NoUser,
                     arg |-> <<task_type>>,
                     result |-> <<task_type \in DOMAIN routing_rules>>]
    /\ UNCHANGED <<agents, registry, sessionVars, now, calls, clientVars,
                   dirVars>>

\* AgentRouter.get_agent_status(), the handles answering as queries says
RouterStatus(queries) ==
    /\ last_call' = [op |-> "status", user |-> NoUser, arg |-> <<queries>>,
                     result |-> <<GetAgentStatus(agents, queries)>>]
    /\ UNCHANGED <<routerVars, sessionVars, now, calls, clientVars, dirVars>>

\* AgentRegistry.register_agent(card)
DirRegister(card) ==
    /\ registry' = RegisterCard(registry, card)
    /\ last_op' = [op |-> "register", agent_id |-> card.agent_id,
                   card |-> <<card>>, before |-> registry, raised |-> FALSE]
    /\ latest' = [latest EXCEPT ![card.agent_id] = <<card>>]
    /\ UNCHANGED <<agents, routing_rules, sessionVars, now, calls, clientVars,
                   last_call>>

\* AgentRegistry.unregister_agent(agent_id)
DirUnregister(agent_id) ==
    LET un == UnregisterCard(registry, agent_id) IN
    /\ registry' = un.dict
    /\ last_op' = [op |-> "unregister", agent_id |-> agent_id,
                   card |-> <<>>, before |-> registry, raised |-> un.raised]
    /\ latest' = [latest EXCEPT ![agent_id] = <<>>]
    /\ UNCHANGED <<agents, routing_rules, sessionVars, now, calls, clientVars,
                   last_call>>

\* the directory alone: cards registered, replaced and unregistered in any
\* order
DirCaps == {{}, {CapSearch}, {CapData}, {CapSearch, CapData}}
DirCards == { Card(i, v) : i \in DirIds, v \in DirCaps }
DirInit ==
    /\ agents = <<>>
    /\ routing_rules = EmptyMap
    /\ registry = <<>>
    /\ conversation_state = EmptyMap
    /\ conversation_history = EmptyMap
    /\ active_sessions = EmptyMap
    /\ now = 0
    /\ calls = [c \in CallIds |-> IdleCall]
    /\ ClientIdle
    /\ DirIdle
DirNext ==
    \/ \E card \in DirCards : DirRegister(card)
    \/ \E i \in DirIds : DirUnregister(i)
DirSpec == DirInit /\ [][DirNext]_vars

\* route calls one after the other, the local handles registered and
\* unregistered and the rule of the task type added and removed between them
DetHandles ==
    { <<"a1", Handle({CapSearch, CapData})>>, <<"a2", Handle({CapSearch})>> }
DetTasks ==
    { [type |-> "research", capabilities |-> <<CapSearch>>] }
DetDirConfigs ==
    { << <<"r1", Card("r1", {CapSearch})>>, <<"r2", Card("r2", {CapSearch})>> >> }
DetInit ==
    /\ agents = <<>>
    /\ routing_rules = EmptyMap
    /\ registry \in DetDirConfigs
    /\ conversation_state = EmptyMap
    /\ conversation_history = EmptyMap
    /\ active_sessions = EmptyMap
    /\ now = 0
    /\ calls = [c \in CallIds |-> IdleCall]
    /\ ClientIdle
    /\ DirIdle
DetRules == { <<"a2", "a1">> }
DetNext ==
    \/ \E h \in DetHandles : RouterRegister(h[1], h[2])
    \/ \E h \in DetHandles : RouterUnregister(h[1])
    \/ \E agent_ids \in DetRules : RouterAddRule("research", agent_ids)
    \/ RouterRemoveRule("research")
    \/ \E c \in CallIds, task \in DetTasks :
          /\ \A d \in CallIds : ~InFlight(d)
          /\ RouteStart(c, task)
    \/ \E c \in CallIds, r \in AgentResults : AgentReturns(c, r)
    \/ \E c \in CallIds : DeliveryReturns(c)
DetSpec == DetInit /\ [][DetNext]_vars

\* route calls one after the other on a router that has a handle, a rule
\* and a directory record with the empty id
EmptyIdHandles ==
    { <<"", Handle({CapSearch})>>, <<"a1", Handle({CapSearch})>> }
EmptyIdInit ==
    /\ agents = <<>>
    /\ routing_rules = EmptyMap
    /\ registry = << <<"", Card("", {CapSearch})>> >>
    /\ conversation_state = EmptyMap
    /\ conversation_history = EmptyMap
    /\ active_sessions = EmptyMap
    /\ now = 0
    /\ calls = [c \in CallIds |-> IdleCall]
    /\ ClientIdle
    /\ DirIdle
EmptyIdNext ==
    \/ \E h \in EmptyIdHandles : RouterRegister(h[1], h[2])
    \/ \E h \in EmptyIdHandles : RouterUnregister(h[1])
    \/ RouterAddRule("research", <<"">>)
    \/ RouterRemoveRule("research")
    \/ \E c \in CallIds, task \in DetTasks :
          /\ \A d \in CallIds : ~InFlight(d)
          /\ RouteStart(c, task)
    \/ \E c \in CallIds, r \in AgentResults : AgentReturns(c, r)
EmptyIdSpec == EmptyIdInit /\ [][EmptyIdNext]_vars

\* the handles are registered, removed and asked for their status
StatusQueries == [{"a1", "a2"} -> {"idle", "raises", "missing"}]
StatusNext ==
    \/ \E h \in DetHandles : RouterRegister(h[1], h[2])
    \/ \E h \in DetHandles : RouterUnregister(h[1])
    \/ \E queries \in StatusQueries : RouterStatus(queries)
StatusSpec == DetInit /\ [][StatusNext]_vars

\* ------------------------------------------------------ client calls
\* the client's own id, the ids it addresses and what it sends
ClientId == "c1"
PeerIds == {"s1", "s2"}
Bodies == {"body"}
Statuses == {"busy"}
othersThanOps ==
    <<routerVars, sessionVars, now, calls, status_listeners, message_queue,
      inbox_log, dirVars, last_call>>

\* delegate_task or send_direct_message until it awaits _send_message or
\* raises
SendStart(o, kind, target, body) ==
    /\ NextOp(o)
    /\ LET sb == SendBegin(registry, ClientId, kind, target, body)
       IN  ops' = [ops EXCEPT ![o] =
                  [IdleOp EXCEPT !.pc = sb.pc, !.kind = kind,
                                 !.target = target, !.envelope = sb.envelope,
                                 !.attempts = sb.attempts,
                                 !.outcome = sb.outcome]]
    /\ UNCHANGED othersThanOps

\* delegate_task(target_agent, task)
DelegateTask(o, target, task) == SendStart(o, "delegate", target, task)

\* send_direct_message(target_agent, content)
SendDirectMessage(o, target, content) == SendStart(o, "direct", target, content)

\* _send_message has ended with delivery: the call returns or raises
SendEnd(o, delivery) ==
    /\ ops[o].pc = "sending"
    /\ ops[o].kind \in {"delegate", "direct"}
    /\ ops' = [ops EXCEPT ![o].pc = "done", ![o].delivery = delivery,
                          ![o].outcome =
                              SendCatch(ops[o].kind, ops[o].target, delivery)]
    /\ UNCHANGED othersThanOps

\* the transport delivers the message
SendReturns(o) == SendEnd(o, ExecOk(DeliveredResult(ops[o].target)))

\* the transport fails
SendFails(o, cause) == SendEnd(o, ExecRaise(<<cause>>))

\* subscribe_to_status(agent_id)
Subscribe(agent_id) ==
    /\ Len(SubscribeToStatus(status_listeners, agent_id)) <= MaxEntries
    /\ status_listeners' = SubscribeToStatus(status_listeners, agent_id)
    /\ last_call' = [op |-> "subscribe_to_status", user |-> NoUser,
                     arg |-> <<agent_id>>, result |-> <<>>]
    /\ UNCHANGED <<routerVars, sessionVars, now, calls, message_queue, ops,
                   inbox_log, dirVars>>

\* unsubscribe_from_status(agent_id)
Unsubscribe(agent_id) ==
    /\ status_listeners' = UnsubscribeFromStatus(status_listeners, agent_id)
    /\ last_call' = [op |-> "unsubscribe_from_status", user |-> NoUser,
                     arg |-> <<agent_id>>, result |-> <<>>]
    /\ UNCHANGED <<routerVars, sessionVars, now, calls, message_queue, ops,
                   inbox_log, dirVars>>

\* broadcast_status(status) until it awaits _send_message, returns or raises
BroadcastStatus(o, status) ==
    /\ NextOp(o)
    /\ LET message == Envelope(ClientId, None, "status_update", <<status>>)
           op == [IdleOp EXCEPT !.kind = "broadcast", !.envelope = message,
                                !.listeners = Keys(status_listeners),
                                !.iter = IterStart(status_listeners)]
       IN  ops' = [ops EXCEPT ![o] = BroadcastRun(registry, status_listeners, op)]
    /\ UNCHANGED othersThanOps

\* _send_message has ended with delivery: the loop of broadcast_status goes on
BroadcastStep(o, delivery) ==
    /\ ops[o].pc = "sending"
    /\ ops[o].kind = "broadcast"
    /\ ops' = [ops EXCEPT ![o] =
                  BroadcastResume(registry, status_listeners,
                                  [ops[o] EXCEPT !.delivery = delivery],
                                  delivery)]
    /\ UNCHANGED othersThanOps

\* the transport delivers the status update
BroadcastDelivered(o) ==
    BroadcastStep(o, ExecOk(DeliveredResult(ops[o].current)))

\* the transport fails
BroadcastDeliveryFails(o, cause) == BroadcastStep(o, ExecRaise(<<cause>>))

\* BaseAgent.initialize() of the agent that owns the client; its tools are
\* registered with the tool server, which holds no state of the directory
AgentCapabilities == {CapSearch}
Initialize ==
    /\ registry' = RegisterWithRegistry(registry, ClientId, AgentCapabilities)
    /\ last_call' = [op |-> "initialize", user |-> NoUser,
                     arg |-> <<ClientId>>, result |-> <<>>]
    /\ UNCHANGED <<agents, routing_rules, sessionVars, now, calls, clientVars,
                   dirVars>>

\* BaseAgent.shutdown() until set_status awaits a delivery, or to its end:
\* the status is set and broadcast, then the card is unregistered
ShuttingDown == [agent_id |-> ClientId, status |-> "shutting_down"]
Shutdown(o) ==
    /\ NextOp(o)
    /\ LET message == Envelope(ClientId, None, "status_update", <<ShuttingDown>>)
           op == [IdleOp EXCEPT !.kind = "shutdown", !.envelope = message,
                                !.listeners = Keys(status_listeners),
                                !.iter = IterStart(status_listeners)]
           run == BroadcastRun(registry, status_listeners, op)
       IN  /\ ops' = [ops EXCEPT ![o] = run]
           /\ registry' = ShutdownUnregisters(registry, ClientId, run)
    /\ UNCHANGED <<agents, routing_rules, sessionVars, now, calls,
                   status_listeners, message_queue, inbox_log, dirVars,
                   last_call>>

\* _send_message has ended with delivery: the broadcast of set_status goes
\* on, and after it shutdown
ShutdownStep(o, delivery) ==
    /\ ops[o].pc = "sending"
    /\ ops[o].kind = "shutdown"
    /\ LET run == BroadcastResume(registry, status_listeners,
                                  [ops[o] EXCEPT !.delivery = delivery],
                                  delivery)
       IN  /\ ops' = [ops EXCEPT ![o] = run]
           /\ registry' = ShutdownUnregisters(registry, ClientId, run)
    /\ UNCHANGED <<agents, routing_rules, sessionVars, now, calls,
                   status_listeners, message_queue, inbox_log, dirVars,
                   last_call>>

\* the transport delivers the status update of a shutdown
ShutdownDelivered(o) ==
    ShutdownStep(o, ExecOk(DeliveredResult(ops[o].current)))

\* the transport fails
ShutdownDeliveryFails(o, cause) == ShutdownStep(o, ExecRaise(<<cause>>))

\* handle_incoming_message(message) of client self
HandleInbound(o, self, message) ==
    /\ NextOp(o)
    /\ LET h == HandleIncomingMessage(message_queue[self], message)
       IN  /\ message_queue' = [message_queue EXCEPT ![self] = h.queue]
           /\ inbox_log' = [inbox_log EXCEPT ![self].put =
                                IF Len(h.queue) > Len(message_queue[self])
                                THEN Append(@, message) ELSE @]
           /\ ops' = [ops EXCEPT ![o] =
                  [IdleOp EXCEPT !.pc = "done", !.kind = "handle",
                                 !.client = self, !.envelope = message,
                                 !.inbox_before = message_queue[self],
                                 !.inbox_after = h.queue,
                                 !.outcome = h.outcome]]
    /\ UNCHANGED <<routerVars, sessionVars, now, calls, status_listeners,
                   dirVars, last_call>>

\* the messages that arrive: the three kinds the peers build, a kind the
\* client does not know, a message without a type, and messages that lack
\* the status, the content or the sender
InboundMessages ==
    { Envelope(p, ClientId, "task_delegation", <<b>>) : p \in PeerIds, b \in Bodies }
    \cup { Envelope(p, ClientId, "direct_message", <<b>>) : p \in PeerIds, b \in Bodies }
    \cup { Envelope(p, None, "status_update", <<st>>) : p \in PeerIds, st \in Statuses }
    \cup { Envelope(p, ClientId, "heartbeat", <<>>) : p \in PeerIds }
    \cup { Envelope(p, ClientId, None, <<>>) : p \in PeerIds }
    \cup { Envelope("s1", None, "status_update", <<>>),
           Envelope("s1", ClientId, "direct_message", <<>>),
           Envelope(None, ClientId, "direct_message", <<"body">>) }

\* receive_messages() of client self is called: wait_for hands the queue's get
\* to the event loop, which runs it at a later turn
ReceiveMessages(o, self) ==
    /\ NextOp(o)
    /\ ops' = [ops EXCEPT ![o] =
           [IdleOp EXCEPT !.pc = "scheduled", !.kind = "receive",
                          !.client = self]]
    /\ UNCHANGED <<routerVars, sessionVars, now, calls, status_listeners,
                   message_queue, inbox_log, dirVars, last_call>>

\* the queue's get runs, in a turn of the event loop of its own: it takes
\* the oldest message when there is one, and otherwise waits for a put (a get
\* that waits is resumed by a put only)
ReceiveGet(o) ==
    /\ ops[o].kind = "receive"
    /\ ops[o].pc \in {"scheduled", "waiting"}
    /\ LET self == ops[o].client
           inbox == message_queue[self]
       IN  IF inbox # <<>>
           THEN /\ message_queue' =
                      [message_queue EXCEPT ![self] = QueueGet(inbox).queue]
                /\ inbox_log' = [inbox_log EXCEPT ![self].got =
                                     Append(@, QueueGet(inbox).item)]
                /\ ops' = [ops EXCEPT ![o] = ReceiveTook(@, inbox)]
           ELSE /\ ops[o].pc = "scheduled"
                /\ ops' = [ops EXCEPT ![o].pc = "waiting", ![o].waited = TRUE]
                /\ UNCHANGED <<message_queue, inbox_log>>
    /\ UNCHANGED <<routerVars, sessionVars, now, calls, status_listeners,
                   dirVars, last_call>>

\* wait_for is resumed by the get that has ended, at a later turn of the
\* event loop, and receive_messages returns the message; a timeout that
\* expires before that turn finds the get done and changes nothing
ReceiveReturn(o) ==
    /\ ops[o].kind = "receive"
    /\ ops[o].pc = "taking"
    /\ ops' = [ops EXCEPT ![o] = ReceiveGot(@)]
    /\ UNCHANGED <<routerVars, sessionVars, now, calls, status_listeners,
                   message_queue, inbox_log, dirVars, last_call>>

\* the timeout of wait_for expires on a get that waits: the get is cancelled
\* and takes nothing
ReceiveTimeout(o) ==
    /\ ops[o].kind = "receive"
    /\ ops[o].pc = "waiting"
    /\ ops' = [ops EXCEPT ![o] = ReceiveExpired(@)]
    /\ UNCHANGED <<routerVars, sessionVars, now, calls, status_listeners,
                   message_queue, inbox_log, dirVars, last_call>>

\* the directories a client works against
ClientDirConfigs ==
    { <<>>,
      << <<"s1", Card("s1", {CapSearch})>> >>,
      << <<"s1", Card("s1", {CapSearch})>>, <<"s2", Card("s2", {CapData})>> >> }
ClientInit ==
    /\ agents = <<>>
    /\ routing_rules = EmptyMap
    /\ registry \in ClientDirConfigs
    /\ conversation_state = EmptyMap
    /\ conversation_history = EmptyMap
    /\ active_sessions = EmptyMap
    /\ now = 0
    /\ calls = [c \in CallIds |-> IdleCall]
    /\ ClientIdle
    /\ DirIdle

\* messages sent to peers and messages that arrive
ClientNext ==
    \/ \E o \in OpIds, t \in PeerIds, b \in Bodies : DelegateTask(o, t, b)
    \/ \E o \in OpIds, t \in PeerIds, b \in Bodies : SendDirectMessage(o, t, b)
    \/ \E o \in OpIds : SendReturns(o)
    \/ \E o \in OpIds, e \in DeliveryErrors : SendFails(o, e)
    \/ \E o \in OpIds, self \in ClientIds, m \in InboundMessages :
          HandleInbound(o, self, m)
ClientSpec == ClientInit /\ [][ClientNext]_vars

\* the messages that arrive at client self, and the inboxes a client can
\* have built up from them
InboxMessages(self) ==
    { Envelope(p, self, "task_delegation", <<"body">>) : p \in PeerIds }
    \cup { Envelope("s1", self, "direct_message", <<"body">>),
           Envelope("s1", None, "status_update", <<"busy">>) }
InboxBacklogs ==
    { <<>>,
      << Envelope("s2", "c1", "direct_message", <<"body">>),
         Envelope("s1", "c1", "task_delegation", <<"body">>) >> }
InboxInit ==
    /\ agents = <<>>
    /\ routing_rules = EmptyMap
    /\ registry = <<>>
    /\ conversation_state = EmptyMap
    /\ conversation_history = EmptyMap
    /\ active_sessions = EmptyMap
    /\ now = 0
    /\ calls = [c \in CallIds |-> IdleCall]
    /\ status_listeners = <<>>
    /\ ops = [o \in OpIds |-> IdleOp]
    /\ \E backlog \in InboxBacklogs :
          /\ message_queue = [self \in ClientIds |->
                                 IF self = ClientId THEN backlog ELSE <<>>]
          /\ inbox_log = [self \in ClientIds |->
                             [put |-> message_queue[self], got |-> <<>>]]
    /\ last_call = NoCall
    /\ DirIdle

\* producers and consumers of the inboxes, interleaved
InboxNext ==
    \/ \E o \in OpIds, self \in ClientIds :
          \E m \in InboxMessages(self) : HandleInbound(o, self, m)
    \/ \E o \in OpIds, self \in ClientIds : ReceiveMessages(o, self)
    \/ \E o \in OpIds : ReceiveGet(o)
    \/ \E o \in OpIds : ReceiveReturn(o)
    \/ \E o \in OpIds : ReceiveTimeout(o)
InboxSpec == InboxInit /\ [][InboxNext]_vars

\* the event loop runs every get it was handed and resumes every call whose
\* get has ended, and the timer of every wait_for fires
InboxFairSpec ==
    /\ InboxSpec
    /\ \A o \in OpIds :
          /\ WF_vars(ReceiveGet(o))
          /\ WF_vars(ReceiveReturn(o))
          /\ WF_vars(ReceiveTimeout(o))

\* broadcasts, the subscriber set changed between them only
Broadcasting == \E o \in OpIds : ops[o].kind = "broadcast" /\ ops[o].pc = "sending"
BroadcastSteps ==
    \/ \E o \in OpIds, st \in Statuses : BroadcastStatus(o, st)
    \/ \E o \in OpIds : BroadcastDelivered(o)
    \/ \E o \in OpIds, e \in DeliveryErrors : BroadcastDeliveryFails(o, e)
BroadcastNext ==
    \/ \E i \in PeerIds : ~Broadcasting /\ Subscribe(i)
    \/ \E i \in PeerIds : ~Broadcasting /\ Unsubscribe(i)
    \/ BroadcastSteps
BroadcastSpec == ClientInit /\ [][BroadcastNext]_vars

\* broadcasts, the subscriber set changed at any time
BroadcastOverlapNext ==
    \/ \E i \in PeerIds : Subscribe(i)
    \/ \E i \in PeerIds : Unsubscribe(i)
    \/ BroadcastSteps
BroadcastOverlapSpec == ClientInit /\ [][BroadcastOverlapNext]_vars

\* an agent is initialized and shut down, its client's subscribers changed
\* at any time
LifecycleNext ==
    \/ Initialize
    \/ \E i \in PeerIds : Subscribe(i)
    \/ \E i \in PeerIds : Unsubscribe(i)
    \/ \E o \in OpIds : Shutdown(o)
    \/ \E o \in OpIds : ShutdownDelivered(o)
    \/ \E o \in OpIds, e \in DeliveryErrors : ShutdownDeliveryFails(o, e)
LifecycleSpec == ClientInit /\ [][LifecycleNext]_vars

\* ------------------------------------------------------------- claims
Entry(role, content) == [role |-> role, content |-> content]
CallsOf(u) == {c \in CallIds : calls[c].pc # "idle" /\ calls[c].user = u}

\* what the callers of process saw for user u, calls c..MaxCalls in arrival
\* order: the message of each call, then the text it returned
RECURSIVE Transcript(_, _)
Transcript(u, c) ==
    IF c > MaxCalls THEN <<>>
    ELSE (IF c \in CallsOf(u)
          THEN <<Entry("user", calls[c].message)>>
               \o (IF calls[c].pc = "done" /\ ~calls[c].outcome.raised
                   THEN <<Entry("assistant", calls[c].outcome.text)>>
                   ELSE <<>>)
          ELSE <<>>)
         \o Transcript(u, c + 1)

\* C1: with sequential process calls for each user on a fresh session, the
\* user's history is exactly user:m1, assistant:r1, ..., user:mk,
\* assistant:rk, where ri is the text the i-th call returned (during a call,
\* its user entry is the last one).
C1_SequentialHistory ==
    \A u \in Users :
        CallsOf(u) # {} =>
            /\ u \in DOMAIN conversation_history
            /\ conversation_history[u] = Transcript(u, 1)

\* two completed calls of one user with different messages
C1_Witness ==
    \E u \in Users :
        /\ calls[1].user = u /\ calls[2].user = u
        /\ calls[1].pc = "done" /\ calls[2].pc = "done"
        /\ calls[1].message # calls[2].message
        /\ calls[1].outcome.text # calls[2].outcome.text
        /\ Len(conversation_history[u]) = 4

\* C2: when process calls of one user overlap, the log still shows them
\* serialized: once the calls have returned, each call's user entry is
\* directly followed by that call's assistant entry, the calls in arrival
\* order.
C2_OverlapSerialized ==
    \A u \in Users :
        (CallsOf(u) # {} /\ \A c \in CallsOf(u) : calls[c].pc = "done") =>
            \E pos \in [CallsOf(u) -> 1..Len(conversation_history[u])] :
                \A c \in CallsOf(u) :
                    /\ conversation_history[u][pos[c]]
                           = Entry("user", calls[c].message)
                    /\ pos[c] < Len(conversation_history[u])
                    /\ conversation_history[u][pos[c] + 1]
                           = Entry("assistant", calls[c].outcome.text)
                    /\ \A d \in CallsOf(u) : c < d => pos[c] < pos[d]

\* C3: every process call that has ended returned a text and did not raise,
\* whatever the router, the directory and the session looked like; a task
\* no agent was selected for returned the "no suitable agent" text.
C3_ProcessReturnsText ==
    \A c \in CallIds :
        (calls[c].entry = "process" /\ calls[c].pc = "done") =>
            /\ ~calls[c].outcome.raised
            /\ calls[c].outcome.text # <<>>
            /\ calls[c].agent = None =>
                   calls[c].outcome.text
                       = <<"No suitable agent found for task type: ",
                           calls[c].task.type>>

\* one call ended unroutable and one ended with a failed delivery, both
\* answered with a text
C3_Witness ==
    \E c, d \in CallIds :
        /\ calls[c].pc = "done" /\ calls[c].agent = None
        /\ calls[c].outcome.text[1] = "No suitable agent found for task type: "
        /\ calls[d].pc = "done" /\ ~calls[d].exec.ok
        /\ ~calls[d].outcome.raised

Started(c) == calls[c].pc # "idle"
Required(c) == calls[c].task.capabilities
\* caps advertises every required capability
Covers(caps, req) == \A k \in 1..Len(req) : req[k] \in caps
LocalCovers(id, req) ==
    \E i \in 1..Len(agents) :
        agents[i][1] = id /\ Covers(agents[i][2].capabilities, req)
CardCovers(id, req) ==
    \E j \in 1..Len(registry) :
        registry[j][1] = id /\ Covers(registry[j][2].capabilities, req)
IsHandle(id) == \E i \in 1..Len(agents) : agents[i][1] = id
HasRecord(cap) == \E j \in 1..Len(registry) : cap \in registry[j][2].capabilities
RuleIds(c) ==
    IF calls[c].task.type \in DOMAIN routing_rules
    THEN routing_rules[calls[c].task.type] ELSE <<>>
NoRuleMatch(c) ==
    \A k \in 1..Len(RuleIds(c)) : ~LocalCovers(RuleIds(c)[k], Required(c))
NoLocalMatch(c) ==
    \A i \in 1..Len(agents) : ~Covers(agents[i][2].capabilities, Required(c))

\* C4: a route call hands its task to at most one agent, exactly one when an
\* agent was selected: one process_task of a local handle or one delegation,
\* never both; when nothing was selected no agent is invoked.  An empty id
\* counts as nothing selected, as route_task takes it.
C4_AtMostOneAgent ==
    \A c \in CallIds :
        /\ Len(calls[c].invoked) <= 1
        /\ (Started(c) /\ calls[c].agent \in {None, ""}) =>
               calls[c].invoked = <<>>
        /\ (Started(c) /\ calls[c].agent \notin {None, ""}) =>
               /\ Len(calls[c].invoked) = 1
               /\ calls[c].invoked[1][2] = calls[c].agent
               /\ calls[c].invoked[1][1] = "local" <=> IsHandle(calls[c].agent)

\* a task went to a remote record although local handles exist
C4_Witness ==
    \E c \in CallIds :
        /\ calls[c].pc = "done"
        /\ agents # <<>>
        /\ calls[c].invoked = << <<"remote", calls[c].agent>> >>

\* C5: the agent a task is handed to advertises every required capability,
\* and a task no local handle and no directory record covers is handed to
\* nobody.
C5_InvokedAgentCovers ==
    \A c \in CallIds :
        Started(c) =>
            /\ calls[c].invoked # <<>> =>
                   IF calls[c].invoked[1][1] = "local"
                   THEN LocalCovers(calls[c].agent, Required(c))
                   ELSE CardCovers(calls[c].agent, Required(c))
            /\ (/\ \A i \in 1..Len(agents) :
                       ~LocalCovers(agents[i][1], Required(c))
                /\ \A j \in 1..Len(registry) :
                       ~CardCovers(registry[j][1], Required(c)))
                => calls[c].invoked = <<>>

\* no local handle covers the task and no directory record advertises any
\* of its required capabilities
NoCandidate(c) ==
    /\ NoLocalMatch(c)
    /\ \A k \in 1..Len(Required(c)) : ~HasRecord(Required(c)[k])

\* C6 as claimed: a task without candidate makes route raise a
\* NoSuitableAgent failure that carries the task type.
C6_NoSuitableAgentRaised ==
    \A c \in CallIds :
        (Started(c) /\ NoCandidate(c)) =>
            /\ calls[c].pc = "done"
            /\ calls[c].outcome.raised
            /\ \E k \in 1..Len(calls[c].outcome.text) :
                   calls[c].outcome.text[k] = calls[c].task.type

\* C6 amended: a task without candidate (always so with no handle and an
\* empty directory) makes route return, without raising and without
\* invoking an agent, the text "No suitable agent found for task type:
\* <type>"; and route selects nothing only for such a task.
C6_NoSuitableAgentText ==
    \A c \in CallIds :
        Started(c) =>
            /\ (agents = <<>> /\ registry = <<>>) => NoCandidate(c)
            /\ NoCandidate(c) <=> calls[c].agent = None
            /\ NoCandidate(c) =>
                   /\ calls[c].pc = "done"
                   /\ ~calls[c].outcome.raised
                   /\ calls[c].outcome.text
                          = <<"No suitable agent found for task type: ",
                              calls[c].task.type>>
                   /\ calls[c].invoked = <<>>

\* nothing is registered anywhere, a rule names ids, the task requires
\* capabilities: the call has returned the text
C6_Witness ==
    \E c \in CallIds :
        /\ calls[c].pc = "done"
        /\ agents = <<>> /\ registry = <<>>
        /\ RuleIds(c) # <<>>
        /\ Required(c) # <<>>
        /\ calls[c].outcome.text[2] = calls[c].task.type

\* C7: when the selected agent's process_task raised or the delegation
\* failed, route did not raise: it returned a text naming the selected
\* agent id and the cause.
C7_InvocationErrorText ==
    \A c \in CallIds :
        (calls[c].pc = "done" /\ ~calls[c].exec.ok) =>
            /\ ~calls[c].outcome.raised
            /\ calls[c].agent # None
            /\ calls[c].outcome.text
                   = <<"Error executing task with agent ", calls[c].agent, ": ">>
                     \o calls[c].exec.text
            /\ calls[c].exec.text # <<>>

\* a failed delegation, answered with the error text
C7_Witness ==
    \E c \in CallIds :
        /\ calls[c].pc = "done" /\ ~calls[c].exec.ok
        /\ calls[c].invoked[1][1] = "remote"
        /\ calls[c].outcome.text[2] = calls[c].agent

\* C8 as claimed: with a rule entry for the task type, the first listed id
\* that is a covering local handle or, if not local, a covering directory
\* record is selected.
ClaimedEligible(id, req) ==
    \/ LocalCovers(id, req)
    \/ ~IsHandle(id) /\ CardCovers(id, req)
C8_RuleListLocalOrRemote ==
    \A c \in CallIds :
        Started(c) =>
            \A k \in 1..Len(RuleIds(c)) :
                (/\ ClaimedEligible(RuleIds(c)[k], Required(c))
                 /\ \A j \in 1..(k - 1) :
                        ~ClaimedEligible(RuleIds(c)[j], Required(c)))
                => calls[c].agent = RuleIds(c)[k]

\* C8 amended: with a rule entry for the task type, the first listed id
\* that is a covering local handle is selected, before any other local
\* handle; listed ids that are not local handles are skipped, also when the
\* directory resolves them; nothing else is selected by rule.
C8_RuleListLocalOnly ==
    \A c \in CallIds :
        Started(c) =>
            /\ \A k \in 1..Len(RuleIds(c)) :
                   (/\ LocalCovers(RuleIds(c)[k], Required(c))
                    /\ \A j \in 1..(k - 1) :
                           ~LocalCovers(RuleIds(c)[j], Required(c)))
                   => (calls[c].agent = RuleIds(c)[k] /\ calls[c].step = "rule")
            /\ calls[c].step = "rule" =>
                   \E k \in 1..Len(RuleIds(c)) :
                       /\ calls[c].agent = RuleIds(c)[k]
                       /\ LocalCovers(RuleIds(c)[k], Required(c))

\* the rule lists a resolvable, covering remote id first and a local handle
\* second; the local handle is selected although another covering handle
\* was registered before it
C8_Witness ==
    \E c \in CallIds :
        /\ Started(c) /\ calls[c].step = "rule"
        /\ Len(RuleIds(c)) = 2
        /\ Required(c) # <<>>
        /\ ~IsHandle(RuleIds(c)[1]) /\ CardCovers(RuleIds(c)[1], Required(c))
        /\ calls[c].agent = RuleIds(c)[2]
        /\ agents[1][1] # calls[c].agent
        /\ Covers(agents[1][2].capabilities, Required(c))

\* C9: without a rule match the first local handle, in registration order,
\* that advertises every required capability is selected; with no required
\* capability that is the first handle; a directory record is selected only
\* when no local handle matches.
C9_LocalFallback ==
    \A c \in CallIds :
        (Started(c) /\ NoRuleMatch(c)) =>
            /\ \A i \in 1..Len(agents) :
                   (/\ Covers(agents[i][2].capabilities, Required(c))
                    /\ \A j \in 1..(i - 1) :
                           ~Covers(agents[j][2].capabilities, Required(c)))
                   => (calls[c].agent = agents[i][1] /\ calls[c].step = "local")
            /\ (Required(c) = <<>> /\ agents # <<>>) =>
                   calls[c].agent = agents[1][1]
            /\ calls[c].step = "external" => NoLocalMatch(c)

\* the second registered handle is the first that covers the task, and a
\* covering directory record was passed over
C9_Witness ==
    \E c \in CallIds :
        /\ Started(c) /\ NoRuleMatch(c) /\ calls[c].step = "local"
        /\ Len(agents) = 2
        /\ calls[c].agent = agents[2][1]
        /\ \E j \in 1..Len(registry) :
               /\ ~IsHandle(registry[j][1])
               /\ CardCovers(registry[j][1], Required(c))

\* the first record the directory returns for a capability
FirstRecord(cap) ==
    registry[CHOOSE j \in 1..Len(registry) :
                 /\ cap \in registry[j][2].capabilities
                 /\ \A i \in 1..(j - 1) : cap \notin registry[i][2].capabilities][2]

\* C10: without rule or local match and with required capabilities, the
\* directory is queried once per required capability, in order, up to the
\* first capability that has a record, and the first record returned for it
\* is selected whatever else the task requires; without required
\* capabilities the directory is not queried.
C10_ExternalFallback ==
    \A c \in CallIds :
        Started(c) =>
            /\ (NoRuleMatch(c) /\ NoLocalMatch(c) /\ Required(c) # <<>>) =>
                   /\ \A k \in 1..Len(Required(c)) :
                          (/\ HasRecord(Required(c)[k])
                           /\ \A j \in 1..(k - 1) : ~HasRecord(Required(c)[j]))
                          => /\ calls[c].agent
                                    = FirstRecord(Required(c)[k]).agent_id
                             /\ calls[c].step = "external"
                             /\ calls[c].queries = SubSeq(Required(c), 1, k)
                   /\ (\A k \in 1..Len(Required(c)) : ~HasRecord(Required(c)[k]))
                          => /\ calls[c].agent = None
                             /\ calls[c].queries = Required(c)
            /\ Required(c) = <<>> => calls[c].queries = <<>>
            /\ calls[c].step \in {"rule", "local"} => calls[c].queries = <<>>

\* the second required capability is the first with a record, and the
\* selected record does not advertise the first one
C10_Witness ==
    \E c \in CallIds :
        /\ Started(c) /\ calls[c].step = "external"
        /\ Len(calls[c].queries) = 2
        /\ ~CardCovers(calls[c].agent, Required(c))
        /\ Len(registry) = 2

\* the route calls made so far
RouteCalls == {c \in CallIds : Started(c) /\ calls[c].entry = "route"}
\* the least number of a set of numbers that is not empty
Least(S) == CHOOSE x \in S : \A y \in S : x <= y
\* the entries of a dict as a mapping, whatever their insertion order
AsMapping(d) == {d[i] : i \in 1..Len(d)}
\* the positions in the handle map ag of the handles that cover req
CoveringHandles(ag, req) ==
    {i \in 1..Len(ag) : Covers(ag[i][2].capabilities, req)}
\* the positions in the rule list ids of the ids of covering handles
CoveringRuleIds(ag, ids, req) ==
    {k \in 1..Len(ids) :
        \E i \in CoveringHandles(ag, req) : ag[i][1] = ids[k]}
\* the positions in the directory reg of the cards that advertise cap
CardsWith(reg, cap) == {j \in 1..Len(reg) : cap \in reg[j][2].capabilities}
\* the id that a rule table, a handle map and a directory, each in its order,
\* determine for a task: the first covering handle of the rule list, else
\* the first covering handle, else the first card of the first required
\* capability that has one, else none
SelectedFrom(cfg, task) ==
    LET req == task.capabilities
        ids == IF task.type \in DOMAIN cfg.rules
               THEN cfg.rules[task.type] ELSE <<>>
        answered == {k \in 1..Len(req) : CardsWith(cfg.registry, req[k]) # {}}
    IN  IF CoveringRuleIds(cfg.agents, ids, req) # {}
        THEN ids[Least(CoveringRuleIds(cfg.agents, ids, req))]
        ELSE IF CoveringHandles(cfg.agents, req) # {}
        THEN cfg.agents[Least(CoveringHandles(cfg.agents, req))][1]
        ELSE IF answered # {}
        THEN cfg.registry[Least(CardsWith(cfg.registry,
                                          req[Least(answered)]))][1]
        ELSE None

\* two route calls that saw the same rule table, the same local handle map
\* and the same directory contents, the dicts compared as Python compares
\* them (as mappings, whatever the insertion order), selected the same agent
\* id for tasks of equal type and equal required capabilities
C11_SameMappingSameAgent ==
    \A c, d \in RouteCalls :
        (/\ calls[c].seen.rules = calls[d].seen.rules
         /\ AsMapping(calls[c].seen.agents) = AsMapping(calls[d].seen.agents)
         /\ AsMapping(calls[c].seen.registry)
                = AsMapping(calls[d].seen.registry)
         /\ calls[c].task = calls[d].task)
        => calls[c].agent = calls[d].agent

\* C11: two route calls that see the same rule table, the same local handle
\* map and the same directory, handles and cards in the same registration
\* order, for tasks of equal type and equal required capabilities, select
\* the same agent id: the id that the rule table, the handle map and the
\* directory determine for the task, whatever calls and router operations
\* came before.
C11_RoutingDeterministic ==
    \A c, d \in RouteCalls :
        (/\ calls[c].seen = calls[d].seen
         /\ calls[c].task = calls[d].task)
        => /\ calls[c].agent = calls[d].agent
           /\ calls[c].agent = SelectedFrom(calls[c].seen, calls[c].task)

\* two route calls for the same task saw the same two covering handles in
\* the same order and no rule, and selected the same handle; between them a
\* rule that selects the other handle was added and removed again
C11_Witness ==
    /\ calls[1].pc = "done" /\ calls[2].pc = "done"
    /\ calls[1].entry = "route" /\ calls[2].entry = "route"
    /\ calls[1].seen = calls[2].seen
    /\ calls[1].task = calls[2].task
    /\ Len(calls[1].seen.agents) = 2
    /\ calls[1].agent = calls[2].agent
    /\ calls[1].agent # None
    /\ ~calls[1].rule_removed
    /\ calls[2].rule_removed
    /\ calls[1].seen.rules = EmptyMap
    /\ \E ids \in DetRules :
          SelectedFrom([calls[1].seen EXCEPT
                           !.rules = [k \in {calls[1].task.type} |-> ids]],
                       calls[1].task) # calls[1].agent

\* the directory's answers: discover_agents as a set of cards, and the cards
\* that the operations so far have left registered
Capabilities == {CapSearch, CapData}
Discovered(cap) ==
    { DiscoverAgents(registry, cap)[k] :
        k \in 1..Len(DiscoverAgents(registry, cap)) }
Registered == { latest[i][1] : i \in { j \in DirIds : latest[j] # <<>> } }

\* C12: right after register_agent(R), get_agent(R.agent_id) returns R; right
\* after unregister_agent(id), get_agent(id) returns nothing; unregister_agent
\* of an id that has no card leaves the directory as it was and raises
\* nothing.
C12_GetFollowsLastOperation ==
    /\ last_op.op = "register"
          => GetAgent(registry, last_op.agent_id) = last_op.card
    /\ last_op.op = "unregister"
          => /\ GetAgent(registry, last_op.agent_id) = <<>>
             /\ ~last_op.raised
    /\ (last_op.op = "unregister" /\ ~DictHas(last_op.before, last_op.agent_id))
          => registry = last_op.before

\* an id without a card was unregistered while another card was registered
C12_Witness ==
    /\ last_op.op = "unregister"
    /\ ~DictHas(last_op.before, last_op.agent_id)
    /\ registry # <<>>
    /\ registry = last_op.before

\* C13: after any sequence of register_agent and unregister_agent calls,
\* discover_agents(c) returns exactly the cards currently registered whose
\* capability list contains c, each once, in whatever order they were
\* registered.
C13_DiscoverExact ==
    \A cap \in Capabilities :
        /\ Discovered(cap) = { card \in Registered : cap \in card.capabilities }
        /\ Len(DiscoverAgents(registry, cap)) = Cardinality(Discovered(cap))

\* three cards, r2 registered before r1, two of them carry the capability,
\* and the latest operation registered an id again
C13_Witness ==
    /\ Len(registry) = 3
    /\ registry[1][1] = "r2" /\ registry[2][1] = "r1"
    /\ Len(DiscoverAgents(registry, CapSearch)) = 2
    /\ last_op.op = "register"
    /\ DictHas(last_op.before, last_op.agent_id)

\* C14: the directory holds at most one card per agent id and
\* list_all_agents never returns two cards with one id; register_agent of an
\* id that has a card replaces the whole card, and a capability that only the
\* replaced card carried no longer discovers that id.
C14_OneCardPerId ==
    /\ DictUnique(registry)
    /\ \A i, j \in 1..Len(ListAllAgents(registry)) :
          ListAllAgents(registry)[i].agent_id = ListAllAgents(registry)[j].agent_id
              => i = j
    /\ (last_op.op = "register" /\ DictHas(last_op.before, last_op.agent_id))
          => /\ Len(registry) = Len(last_op.before)
             /\ GetAgent(registry, last_op.agent_id) = last_op.card
             /\ \A cap \in DictGet(last_op.before, last_op.agent_id).capabilities
                            \ last_op.card[1].capabilities :
                    \A card \in Discovered(cap) :
                        card.agent_id # last_op.agent_id

\* a card was replaced by one that lacks a capability of the old card
C14_Witness ==
    /\ last_op.op = "register"
    /\ DictHas(last_op.before, last_op.agent_id)
    /\ Len(registry) = 2
    /\ CapData \in DictGet(last_op.before, last_op.agent_id).capabilities
    /\ CapData \notin last_op.card[1].capabilities
    /\ \E card \in Discovered(CapData) : TRUE

\* what a client call did
Finished(o, kinds) == ops[o].pc = "done" /\ ops[o].kind \in kinds
Resolves(id) == \E j \in 1..Len(registry) : registry[j][1] = id
AttemptsTo(o, id) ==
    Cardinality({ k \in 1..Len(ops[o].attempts) : ops[o].attempts[k].to = id })
Subscribed(o, id) ==
    \E k \in 1..Len(ops[o].listeners) : ops[o].listeners[k] = id

\* C15: delegate_task and send_direct_message to a target that has no card
\* in the directory raise "Agent <target> not found in registry", and no
\* message is handed to the transport.
C15_TargetNotFound ==
    \A o \in OpIds :
        (/\ ops[o].kind \in {"delegate", "direct"}
         /\ ~Resolves(ops[o].target))
        => /\ ops[o].pc = "done"
           /\ ops[o].outcome =
                  Raised(<<"Agent ", ops[o].target, " not found in registry">>)
           /\ ops[o].attempts = <<>>

\* a direct message to s2 was refused by a directory that holds s1 only,
\* after a delegation to s1 went out
C15_Witness ==
    \E o, q \in OpIds :
        /\ Finished(o, {"direct"}) /\ ops[o].target = "s2"
        /\ ~Resolves("s2") /\ Resolves("s1")
        /\ ops[o].outcome.raised
        /\ ops[q].kind = "delegate" /\ ops[q].target = "s1"
        /\ Len(ops[q].attempts) = 1

\* C16: when the transport fails for a delegate_task or send_direct_message
\* to a target that has a card, the caller gets an exception whose text names
\* the target id and the cause; the failure is never returned as a result.
C16_DeliveryFailureRaised ==
    \A o \in OpIds :
        (/\ Finished(o, {"delegate", "direct"})
         /\ ops[o].attempts # <<>>
         /\ ~ops[o].delivery.ok)
        => ops[o].outcome =
               Raised(<<IF ops[o].kind = "delegate"
                        THEN "Failed to delegate task to "
                        ELSE "Failed to send message to ",
                        ops[o].target, ": ", ops[o].delivery.text[1]>>)

\* the transport failed for a delegation and for a direct message to s1
C16_Witness ==
    \E o, q \in OpIds :
        /\ Finished(o, {"delegate"}) /\ Finished(q, {"direct"})
        /\ ops[o].target = "s1" /\ ops[q].target = "s1"
        /\ ~ops[o].delivery.ok /\ ~ops[q].delivery.ok
        /\ ops[o].outcome.raised /\ ops[q].outcome.raised

\* C17: a broadcast_status whose subscriber set is left alone ends without
\* raising, and a transport failure for one subscriber does not keep the
\* later subscribers from their attempt: every subscriber with a card gets
\* one.
C17_BroadcastResilient ==
    \A o \in OpIds :
        Finished(o, {"broadcast"})
        => /\ ~ops[o].outcome.raised
           /\ \A k \in 1..Len(ops[o].listeners) :
                  Resolves(ops[o].listeners[k])
                      => AttemptsTo(o, ops[o].listeners[k]) >= 1

\* the delivery to the first of two subscribers failed, the second was
\* attempted and the broadcast returned
C17_Witness ==
    \E o \in OpIds :
        /\ Finished(o, {"broadcast"})
        /\ Len(ops[o].listeners) = 2
        /\ Len(ops[o].attempts) = 2
        /\ Len(ops[o].reported) = 1
        /\ ops[o].reported[1][1] = ops[o].listeners[1]
        /\ ops[o].attempts[2].to = ops[o].listeners[2]
        /\ ~ops[o].outcome.raised

\* C18 as stated: one broadcast_status hands the transport exactly one
\* status_update message for every id subscribed when it was called, with or
\* without a card in the directory, and none for any other id.
C18_OneAttemptPerSubscriber ==
    \A o \in OpIds :
        Finished(o, {"broadcast"})
        => \A id \in PeerIds :
              AttemptsTo(o, id) = IF Subscribed(o, id) THEN 1 ELSE 0

\* C18 amended: one broadcast_status hands the transport exactly one
\* status_update message for every subscribed id that has a card in the
\* directory, and none for a subscribed id without a card or for any other
\* id.
C18_OneAttemptPerResolvedSubscriber ==
    \A o \in OpIds :
        Finished(o, {"broadcast"})
        => /\ \A id \in PeerIds :
                  AttemptsTo(o, id) =
                      IF Subscribed(o, id) /\ Resolves(id) THEN 1 ELSE 0
           /\ \A k \in 1..Len(ops[o].attempts) :
                  ops[o].attempts[k].envelope.type = "status_update"

\* s1 and s2 were subscribed, only s1 has a card, and s1 alone was attempted
C18_Witness ==
    \E o \in OpIds :
        /\ Finished(o, {"broadcast"})
        /\ Subscribed(o, "s1") /\ Subscribed(o, "s2")
        /\ Resolves("s1") /\ ~Resolves("s2")
        /\ AttemptsTo(o, "s1") = 1
        /\ AttemptsTo(o, "s2") = 0

\* C19: a broadcast_status ends without raising and has attempted the
\* subscribers it found when it was called, in their order, also when
\* subscribe_to_status or unsubscribe_from_status ran while it was suspended
\* in a delivery.
C19_BroadcastIteratesSnapshot ==
    \A o \in OpIds :
        Finished(o, {"broadcast"})
        => /\ ~ops[o].outcome.raised
           /\ [k \in 1..Len(ops[o].attempts) |-> ops[o].attempts[k].to]
                  = SelectSeq(ops[o].listeners, Resolves)

\* the acknowledgements of handle_incoming_message
Handled(o, type) ==
    Finished(o, {"handle"}) /\ ops[o].envelope.type = type
Enqueued(o) == ops[o].inbox_after = Append(ops[o].inbox_before, ops[o].envelope)
Untouched(o) == ops[o].inbox_after = ops[o].inbox_before

\* the message of o carries the sender and the body its handler reads
CarriesKeys(o) == ops[o].envelope.from # None /\ ops[o].envelope.payload # <<>>

\* C20: handle_incoming_message puts a task_delegation into the queue and
\* answers status accepted, puts a direct_message into the queue and answers
\* status received, answers status received to a status_update and leaves
\* the queue alone, and for any other type returns, without raising, an
\* error that names the type and leaves the queue alone.  The direct_message
\* and the status_update are envelopes, with their sender and their body; a
\* message of these types that lacks one of the two raises KeyError and
\* leaves the queue alone.
C20_InboundAcknowledged ==
    \A o \in OpIds :
        /\ Handled(o, "task_delegation")
              => /\ Enqueued(o)
                 /\ ops[o].outcome =
                        Returned(<< <<"status", <<"accepted">> >>,
                                    <<"message", <<"Task delegation received">> >> >>)
        /\ (Handled(o, "direct_message") /\ CarriesKeys(o))
              => /\ Enqueued(o)
                 /\ ops[o].outcome = Returned(<< <<"status", <<"received">> >> >>)
        /\ (Handled(o, "status_update") /\ CarriesKeys(o))
              => /\ Untouched(o)
                 /\ ops[o].outcome = Returned(<< <<"status", <<"received">> >> >>)
        /\ (/\ Finished(o, {"handle"})
            /\ ops[o].envelope.type \in {"direct_message", "status_update"}
            /\ ~CarriesKeys(o))
              => /\ Untouched(o)
                 /\ ops[o].outcome.raised
                 /\ ops[o].outcome.text
                        \in {<<"'", "from", "'">>, <<"'", "status", "'">>,
                             <<"'", "content", "'">>}
        /\ (/\ Finished(o, {"handle"})
            /\ ops[o].envelope.type
                   \notin {"task_delegation", "direct_message", "status_update"})
              => /\ Untouched(o)
                 /\ ops[o].outcome =
                        Returned(<< <<"error", <<"Unknown message type: ",
                                                ops[o].envelope.type>> >> >>)

\* a status update arrived behind a delegation and left it alone in the queue
C20_Witness ==
    \E o, q \in OpIds :
        /\ Handled(o, "task_delegation") /\ Handled(q, "status_update")
        /\ ops[q].inbox_before = <<ops[o].envelope>>
        /\ ops[o].client = ops[q].client
        /\ message_queue[ops[o].client] = <<ops[o].envelope>>

\* the receive calls of client self that returned a message, and those whose
\* get has taken one
Received(self) ==
    {o \in OpIds : /\ ops[o].kind = "receive" /\ ops[o].pc = "done"
                   /\ ops[o].client = self /\ ops[o].received # <<>>}
Took(self) ==
    Received(self)
    \cup {o \in OpIds : /\ ops[o].kind = "receive" /\ ops[o].pc = "taking"
                         /\ ops[o].client = self}

\* C21: under every interleaving of inbound messages and receive calls, the
\* inbox of a client is a FIFO: the messages its handler enqueued are, in
\* that order, the ones its receive calls took followed by the ones still
\* queued; every message taken was taken by one receive call, which took the
\* oldest one and returns that one; and an inbox holds only messages its own
\* client handled
C21_InboxFifo ==
    \A self \in ClientIds :
        /\ inbox_log[self].put = inbox_log[self].got \o message_queue[self]
        /\ Cardinality(Took(self)) = Len(inbox_log[self].got)
        /\ \A o \in Took(self) :
              /\ ops[o].inbox_before # <<>>
              /\ ops[o].inbox_after = Tail(ops[o].inbox_before)
              /\ \E k \in 1..Len(inbox_log[self].got) :
                    inbox_log[self].got[k] = ops[o].inbox_before[1]
              /\ ops[o].pc = "done" =>
                    ops[o].received = <<ops[o].inbox_before[1]>>
        /\ \A i \in 1..Len(message_queue[self]) :
              message_queue[self][i].to = self
\* two receive calls of c1 took the two messages of a backlog, each its own
C21_Witness ==
    /\ Len(inbox_log["c1"].got) >= 2
    /\ inbox_log["c1"].got[1] # inbox_log["c1"].got[2]
    /\ \E o, q \in Received("c1") :
          /\ o # q
          /\ ops[o].received = <<inbox_log["c1"].got[1]>>
          /\ ops[q].received = <<inbox_log["c1"].got[2]>>

\* C22: a receive call never raises; it returns absent only after its get
\* found the inbox empty and the timeout expired, and a get that finds a
\* message returns the oldest one; every receive call that was started
\* returns
C22_ReceiveTerminates ==
    /\ [](\A o \in OpIds :
            (ops[o].kind = "receive" /\ ops[o].pc = "done") =>
                /\ ~ops[o].outcome.raised
                /\ ops[o].received = <<>> => ops[o].waited
                /\ ~ops[o].waited =>
                      ops[o].received = <<ops[o].inbox_before[1]>>)
    /\ \A o \in OpIds :
          (ops[o].kind = "receive" /\ ops[o].pc # "done")
              ~> (ops[o].kind = "receive" /\ ops[o].pc = "done")
\* one receive call on an inbox that stayed empty returned absent, another
\* one on an inbox with a message returned that message
C22_Witness ==
    \E o, q \in OpIds :
        /\ ops[o].kind = "receive" /\ ops[o].pc = "done"
        /\ ops[o].received = <<>> /\ ops[o].waited
        /\ ops[q].kind = "receive" /\ ops[q].pc = "done"
        /\ ops[q].received # <<>> /\ ~ops[q].waited

\* the classification table: the categories in the order they are tried, the
\* keywords of each and the capabilities it asks for
Categories ==
    << [type |-> "research",
        keywords |-> {"search", "find", "research", "look up"},
        capabilities |-> <<"web_search", "data_analysis">>],
       [type |-> "planning",
        keywords |-> {"plan", "schedule", "organize", "break down"},
        capabilities |-> <<"task_decomposition", "workflow_planning">>],
       [type |-> "analysis",
        keywords |-> {"analyze", "report", "summarize"},
        capabilities |-> <<"data_analysis", "report_generation">>],
       [type |-> "coding",
        keywords |-> {"code", "program", "implement", "develop"},
        capabilities |-> <<"code_generation", "debugging">>] >>
\* the keywords as sequences of characters
Spelled(keyword) ==
    CASE keyword = "search" -> <<"s","e","a","r","c","h">>
      [] keyword = "find" -> <<"f","i","n","d">>
      [] keyword = "research" -> <<"r","e","s","e","a","r","c","h">>
      [] keyword = "look up" -> <<"l","o","o","k"," ","u","p">>
      [] keyword = "plan" -> <<"p","l","a","n">>
      [] keyword = "schedule" -> <<"s","c","h","e","d","u","l","e">>
      [] keyword = "organize" -> <<"o","r","g","a","n","i","z","e">>
      [] keyword = "break down" -> <<"b","r","e","a","k"," ","d","o","w","n">>
      [] keyword = "analyze" -> <<"a","n","a","l","y","z","e">>
      [] keyword = "report" -> <<"r","e","p","o","r","t">>
      [] keyword = "summarize" -> <<"s","u","m","m","a","r","i","z","e">>
      [] keyword = "code" -> <<"c","o","d","e">>
      [] keyword = "program" -> <<"p","r","o","g","r","a","m">>
      [] keyword = "implement" -> <<"i","m","p","l","e","m","e","n","t">>
      [] keyword = "develop" -> <<"d","e","v","e","l","o","p">>
\* a keyword occurs in a text, whatever the case of the text's letters
Occurs(keyword, text) ==
    \E i \in 1..Len(text) :
        /\ i + Len(Spelled(keyword)) - 1 <= Len(text)
        /\ LowerStr(SubSeq(text, i, i + Len(Spelled(keyword)) - 1))
               = Spelled(keyword)
Matches(i, text) == \E kw \in Categories[i].keywords : Occurs(kw, text)

\* C23: the task built for a message has the type and the capabilities of
\* the first category, in the order research, planning, analysis, coding,
\* one of whose keywords occurs in the message in any case, and is general
\* with no capabilities when no keyword occurs
C23_FirstMatchingCategory ==
    \A c \in CallIds :
        (calls[c].pc # "idle" /\ calls[c].entry = "process") =>
            LET text == calls[c].message
                hits == {i \in 1..Len(Categories) : Matches(i, text)}
            IN  /\ calls[c].task.message = text
                /\ hits = {} =>
                      /\ calls[c].task.type = "general"
                      /\ calls[c].task.capabilities = <<>>
                /\ \A i \in hits :
                      (\A j \in hits : i <= j) =>
                          /\ calls[c].task.type = Categories[i].type
                          /\ calls[c].task.capabilities =
                                Categories[i].capabilities
\* a message with a capital letter in its analysis keyword and a coding
\* keyword before it became an analysis task, and a message without any
\* keyword a general one
C23_Witness ==
    \E c, d \in CallIds :
        /\ calls[c].pc # "idle" /\ calls[c].message = MsgReportCode
        /\ Matches(3, MsgReportCode) /\ Matches(4, MsgReportCode)
        /\ calls[c].task.type = "analysis"
        /\ calls[d].pc # "idle" /\ calls[d].message = MsgHi
        /\ calls[d].task.type = "general"

\* the process calls made so far
ProcessCalls == {c \in CallIds : calls[c].pc # "idle" /\ calls[c].entry = "process"}

\* C24: the task a process call hands to the router carries the context of
\* its session, the dict itself, so that it shows the context the session has
\* at that moment and from then on while the session lives, and the last 5
\* entries of the log in log order, all of them when there are fewer, the
\* newest being the user entry of the message of this call
C24_TaskCarriesContextAndWindow ==
    \A c \in ProcessCalls :
        LET log == calls[c].session.history
                       \o <<Entry("user", calls[c].message)>>
            n == Len(log)
            k == IF n < 5 THEN n ELSE 5
            window == calls[c].task.conversation_history
        IN  /\ Len(window) = k
            /\ \A i \in 1..k : window[i] = log[n - k + i]
            /\ window[k] = Entry("user", calls[c].message)
            /\ calls[c].shares =>
                  /\ calls[c].user \in DOMAIN conversation_state
                  /\ calls[c].task.context
                        = conversation_state[calls[c].user].context
\* a call found a context with two keys and a log of more than 5 entries,
\* another one a log of fewer than 5, and the context of a session was
\* updated while its call was suspended in the router
C24_Witness ==
    \E c, d, e \in ProcessCalls :
        /\ Len(calls[c].session.history) > 5
        /\ Cardinality(DOMAIN calls[c].session.context) = 2
        /\ Len(calls[c].task.conversation_history) = 5
        /\ Len(calls[d].task.conversation_history) < 5
        /\ InFlight(e)
        /\ calls[e].shares
        /\ calls[e].task.context # calls[e].session.context

\* the last min(limit, n) entries of a log of n entries, in log order
LastEntries(log, limit) ==
    LET n == Len(log)
        k == IF limit < n THEN limit ELSE n
    IN  [i \in 1..k |-> log[n - k + i]]

\* C25: history(user, limit) returns the last min(limit, n) entries of the
\* user's log of n entries in log order for every limit >= 0, the whole log
\* without a limit, and nothing for a user without a session, and it leaves
\* the logs as they are
C25_HistoryLastEntries ==
    [][\A u \in Users, limit \in Limits :
          GetHistory(u, limit) =>
              /\ last_call'.result =
                    IF u \notin DOMAIN conversation_history THEN <<>>
                    ELSE IF limit = <<>> THEN conversation_history[u]
                    ELSE LastEntries(conversation_history[u], limit[1])
              /\ UNCHANGED sessionVars]_vars

\* the sessions of the users other than u are left as they are
OthersKept(u) ==
    /\ DOMAIN conversation_state' \ {u} = DOMAIN conversation_state \ {u}
    /\ DOMAIN conversation_history' \ {u} = DOMAIN conversation_history \ {u}
    /\ DOMAIN active_sessions' \ {u} = DOMAIN active_sessions \ {u}
    /\ \A v \in DOMAIN conversation_state \ {u} :
          conversation_state'[v] = conversation_state[v]
    /\ \A v \in DOMAIN conversation_history \ {u} :
          conversation_history'[v] = conversation_history[v]
    /\ \A v \in DOMAIN active_sessions \ {u} :
          active_sessions'[v] = active_sessions[v]

\* C26: updateContext on a user with a session sets every key of the patch
\* to the patch's value and leaves the other keys of the context, the
\* preferences, the log and the active flag as they are; on a user without a
\* session it creates none and changes nothing
C26_UpdateContextFrame ==
    [][\A u \in Users, patch \in ContextUpdates :
          UpdateContext(u, patch) =>
              IF u \in DOMAIN conversation_state
              THEN LET old == conversation_state[u]
                       new == conversation_state'[u]
                   IN  /\ u \in DOMAIN conversation_state'
                       /\ DOMAIN new.context =
                             (DOMAIN old.context) \cup (DOMAIN patch)
                       /\ \A k \in DOMAIN patch : new.context[k] = patch[k]
                       /\ \A k \in (DOMAIN old.context) \ (DOMAIN patch) :
                             new.context[k] = old.context[k]
                       /\ new.preferences = old.preferences
                       /\ new.started_at = old.started_at
                       /\ UNCHANGED <<conversation_history, active_sessions>>
                       /\ OthersKept(u)
              ELSE UNCHANGED sessionVars]_vars
\* the latest operation put a new topic into a context that has a city, on a
\* session with preferences and a log
C26_Witness ==
    /\ last_call.op = "update_context" /\ last_call.user = "u1"
    /\ DOMAIN last_call.arg[1] = {"topic"}
    /\ "u1" \in DOMAIN conversation_state
    /\ DOMAIN conversation_state["u1"].context = {"topic", "city"}
    /\ conversation_state["u1"].context["topic"] = last_call.arg[1]["topic"]
    /\ conversation_state["u1"].preferences # EmptyMap
    /\ conversation_history["u1"] # <<>>

\* a log is the start of another one
IsPrefix(h, g) == Len(h) <= Len(g) /\ \A i \in 1..Len(h) : g[i] = h[i]

\* C27: process and setPreferences create the session of a user only when
\* the user has none, with an empty context, a log that holds nothing but
\* the entries of this call and the active flag set, and with no preferences
\* but the ones given; on a user with a session they keep the creation time,
\* the context, the log and the active flag, process keeps the preferences
\* and setPreferences replaces them by the ones given
C27_SessionCreatedOnce ==
    [][/\ \A c \in CallIds, u \in Users, m \in Messages :
            ProcessStart(c, u, m) =>
                /\ u \in DOMAIN conversation_state'
                /\ OthersKept(u)
                /\ IF u \in DOMAIN conversation_state
                   THEN /\ conversation_state'[u].started_at =
                              conversation_state[u].started_at
                        /\ conversation_state'[u].context =
                              conversation_state[u].context
                        /\ conversation_state'[u].preferences =
                              conversation_state[u].preferences
                        /\ IsPrefix(conversation_history[u]
                                        \o <<Entry("user", m)>>,
                                    conversation_history'[u])
                        /\ active_sessions'[u] = active_sessions[u]
                   ELSE /\ conversation_state'[u].context = EmptyMap
                        /\ conversation_state'[u].preferences = EmptyMap
                        /\ IsPrefix(<<Entry("user", m)>>,
                                    conversation_history'[u])
                        /\ active_sessions'[u] = TRUE
       /\ \A u \in Users, prefs \in Preferences :
            SetPreferences(u, prefs) =>
                /\ u \in DOMAIN conversation_state'
                /\ OthersKept(u)
                /\ conversation_state'[u].preferences = prefs
                /\ IF u \in DOMAIN conversation_state
                   THEN /\ conversation_state'[u].started_at =
                              conversation_state[u].started_at
                        /\ conversation_state'[u].context =
                              conversation_state[u].context
                        /\ UNCHANGED <<conversation_history, active_sessions>>
                   ELSE /\ conversation_state'[u].context = EmptyMap
                        /\ conversation_history'[u] = <<>>
                        /\ active_sessions'[u] = TRUE]_vars
\* the latest operation replaced the preferences of a session that has a
\* context and a log, and a process call on that session came after it
C27_Witness ==
    /\ last_call.op = "set_preferences" /\ last_call.user = "u1"
    /\ conversation_state["u1"].preferences = last_call.arg[1]
    /\ DOMAIN conversation_state["u1"].preferences = {"units"}
    /\ conversation_state["u1"].context # EmptyMap
    /\ \E c \in ProcessCalls :
          /\ calls[c].user = "u1" /\ calls[c].pc = "done"
          /\ calls[c].session.context # EmptyMap
          /\ Len(conversation_history["u1"]) > Len(calls[c].session.history)

\* C28: end on a user with a session clears the active flag and leaves the
\* context, the preferences and the log as they are, the log still being
\* what history returns; on a user without a session it creates none and
\* changes nothing
C28_EndFrame ==
    [][\A u \in Users :
          End(u) =>
              IF u \in DOMAIN active_sessions
              THEN /\ active_sessions'[u] = FALSE
                   /\ UNCHANGED <<conversation_state, conversation_history>>
                   /\ OthersKept(u)
                   /\ GetConversationHistory(
                          Store(conversation_state', conversation_history',
                                active_sessions'), u, <<>>)
                         = conversation_history[u]
              ELSE UNCHANGED sessionVars]_vars
\* the latest operation ended a session that has a context, preferences and
\* a log
C28_Witness ==
    /\ last_call.op = "end" /\ last_call.user = "u1"
    /\ "u1" \in DOMAIN active_sessions
    /\ active_sessions["u1"] = FALSE
    /\ conversation_state["u1"].context # EmptyMap
    /\ conversation_state["u1"].preferences # EmptyMap
    /\ conversation_history["u1"] # <<>>

\* the number of entries in the logs of users
RECURSIVE Entries(_, _)
Entries(history, users) ==
    IF users = {} THEN 0
    ELSE LET u == CHOOSE x \in users : TRUE IN
         Len(history[u]) + Entries(history, users \ {u})

\* C29: cleanupInactive(threshold) removes the state, the log and the flag
\* of exactly the users whose last activity is older than now minus the
\* threshold, so that history returns nothing for them and the statistics
\* count neither them nor their entries, and it leaves the session of every
\* other user as it is
C29_CleanupRemovesExactlyInactive ==
    [][\A hours \in CleanupHours :
          CleanupInactive(hours) =>
              LET old == {u \in DOMAIN conversation_state :
                             conversation_state[u].last_activity
                                 < now - hours * 3600}
                  after == Store(conversation_state', conversation_history',
                                 active_sessions')
                  kept == (DOMAIN conversation_history) \ old
              IN  /\ DOMAIN conversation_state' =
                        (DOMAIN conversation_state) \ old
                  /\ DOMAIN conversation_history' = kept
                  /\ DOMAIN active_sessions' = (DOMAIN active_sessions) \ old
                  /\ \A u \in old :
                        GetConversationHistory(after, u, <<>>) = <<>>
                  /\ \A u \in DOMAIN conversation_state' :
                        conversation_state'[u] = conversation_state[u]
                  /\ \A u \in DOMAIN conversation_history' :
                        conversation_history'[u] = conversation_history[u]
                  /\ \A u \in DOMAIN active_sessions' :
                        active_sessions'[u] = active_sessions[u]
                  /\ GetSystemStats(after).total_conversations =
                        Cardinality((DOMAIN conversation_state) \ old)
                  /\ GetSystemStats(after).total_messages =
                        Entries(conversation_history, kept)]_vars
\* the session of a served user is gone while the one of a user served an
\* hour later is there, and the statistics count that one alone
C29_Witness ==
    /\ \E c \in ProcessCalls : calls[c].user = "u1" /\ calls[c].pc = "done"
    /\ "u1" \notin DOMAIN conversation_state
    /\ "u1" \notin DOMAIN conversation_history
    /\ "u2" \in DOMAIN conversation_state
    /\ conversation_state["u2"].last_activity = now
    /\ Len(conversation_history["u2"]) = 2
    /\ last_call.op = "stats"
    /\ last_call.result[1].total_conversations = 1
    /\ last_call.result[1].total_messages = 2

\* the process calls made for user v, and the entries every one of them has
\* logged at most: its message, and its reply once it has ended
CallsFor(v) == {c \in ProcessCalls : calls[c].user = v}
OwnEntry(v, entry) ==
    \E c \in CallsFor(v) :
        \/ entry = Entry("user", calls[c].message)
        \/ /\ calls[c].pc = "done"
           /\ entry = Entry("assistant", calls[c].outcome.text)

\* C30: under every interleaving of process calls for different users, a
\* step of a process call for a user leaves the state, the log and the
\* active flag of every other user as they are, and the log of a user holds
\* entries of that user's own process calls only, at most two for a call
\* that has ended and one for a call in flight
C30_UsersIsolated ==
    /\ [](\A v \in DOMAIN conversation_history :
            /\ \A i \in 1..Len(conversation_history[v]) :
                  OwnEntry(v, conversation_history[v][i])
            /\ Len(conversation_history[v]) <=
                  2 * Cardinality({c \in CallsFor(v) : calls[c].pc = "done"})
                    + Cardinality({c \in CallsFor(v) : InFlight(c)}))
    /\ [][\A c \in CallIds :
            (calls'[c] # calls[c] /\ calls'[c].entry = "process") =>
                OthersKept(calls'[c].user)]_vars
\* the call for u2 has ended while the call for u1 is in flight: u2 has its
\* two entries and a session of its own, u1 the entry of its message alone
C30_Witness ==
    \E c, d \in ProcessCalls :
        /\ calls[c].user = "u1" /\ InFlight(c)
        /\ calls[d].user = "u2" /\ calls[d].pc = "done" /\ c < d
        /\ "u1" \in DOMAIN conversation_state
        /\ "u2" \in DOMAIN conversation_state
        /\ Len(conversation_history["u1"]) = 1
        /\ Len(conversation_history["u2"]) = 2

\* a step of cleanupInactive
CleanupStep == \E hours \in CleanupHours : CleanupInactive(hours)

\* C31: a key of a session's context stays in the context, with the same or
\* a newer value, through every step of process, updateContext,
\* setPreferences, end, history and stats; a context loses keys only when
\* cleanupInactive removes the session
C31_ContextKeysStay ==
    [][\A u \in DOMAIN conversation_state :
          IF u \in DOMAIN conversation_state'
          THEN \A k \in DOMAIN conversation_state[u].context :
                   k \in DOMAIN conversation_state'[u].context
          ELSE CleanupStep]_vars
\* a context that had a topic and a city got a new topic, and the session
\* was ended and served again after that
C31_Witness ==
    /\ "u1" \in DOMAIN conversation_state
    /\ DOMAIN conversation_state["u1"].context = {"topic", "city"}
    /\ conversation_state["u1"].context["topic"] = "travel"
    /\ conversation_state["u1"].preferences # EmptyMap
    /\ active_sessions["u1"] = FALSE
    /\ \E c \in ProcessCalls :
          /\ calls[c].pc = "done"
          /\ DOMAIN calls[c].session.context = {"topic", "city"}
          /\ calls[c].session.context["topic"] = "food"

\* C32: the log of a user only grows at its end: over every step that is not
\* cleanupInactive removing the session, the log before the step is a prefix
\* of the log after it
C32_LogAppendOnly ==
    [][\A u \in DOMAIN conversation_history :
          \/ /\ u \in DOMAIN conversation_history'
             /\ IsPrefix(conversation_history[u], conversation_history'[u])
          \/ /\ u \notin DOMAIN conversation_history'
             /\ CleanupStep]_vars

\* C33: in every reachable state a user has a log exactly if the user has a
\* conversation state and an active flag
C33_StateAndLogTogether ==
    /\ DOMAIN conversation_history = DOMAIN conversation_state
    /\ DOMAIN conversation_history = DOMAIN active_sessions

\* C34: unregisterAgent(id) on the router removes the handle of id when
\* there is one and keeps the other handles in their order; for an id
\* without a handle, removed before or never registered, it leaves the
\* handle map as it is; it never raises and never changes the rule table
C34_UnregisterAgentIdempotent ==
    [][\A h \in DetHandles :
          RouterUnregister(h[1]) =>
              /\ last_call'.result = <<FALSE>>
              /\ routing_rules' = routing_rules
              /\ agents' = SelectSeq(agents, LAMBDA e : e[1] # h[1])
              /\ ~DictHas(agents, h[1]) => agents' = agents]_vars
\* the latest operation was unregisterAgent for an id that has no handle
\* while another id has one and a rule names the id
C34_Witness ==
    /\ last_call.op = "unregister_agent"
    /\ last_call.result = <<FALSE>>
    /\ ~DictHas(agents, last_call.arg[1])
    /\ agents # <<>>
    /\ \E t \in DOMAIN routing_rules :
          \E i \in 1..Len(routing_rules[t]) :
              routing_rules[t][i] = last_call.arg[1]

\* C35: status() returns one entry for every local handle, in the order of
\* the handle map: the entry of a handle whose query raises has the status
\* error, the entry of every other handle is the status it gave, and the
\* call does not raise and changes no handle
C35_StatusTotal ==
    [][\A queries \in StatusQueries :
          last_call'.op = "status" /\ RouterStatus(queries) =>
              LET answer == last_call'.result[1] IN
              /\ ~answer.raised
              /\ Len(answer.status) = Len(agents)
              /\ \A i \in 1..Len(agents) :
                    LET agent_id == agents[i][1] IN
                    /\ answer.status[i][1] = agent_id
                    /\ queries[agent_id] = "raises" =>
                          answer.status[i][2].status = "error"
                    /\ queries[agent_id] = "idle" =>
                          answer.status[i][2].status = "idle"
              /\ UNCHANGED routerVars]_vars
\* the latest status() was answered by two handles, the first of which
\* raised: its entry is an error and the second one's is its status
C35_Witness ==
    /\ last_call.op = "status"
    /\ Len(agents) = 2
    /\ last_call.arg[1][agents[1][1]] = "raises"
    /\ last_call.arg[1][agents[2][1]] = "idle"
    /\ Len(last_call.result[1].status) = 2
    /\ last_call.result[1].status[1][2].status = "error"
    /\ last_call.result[1].status[2] =
          <<agents[2][1], [status |-> "idle", error |-> <<>>]>>

\* C36: subscribe_to_status(id) leaves id among the subscribers exactly once
\* and changes nothing when id was subscribed already;
\* unsubscribe_from_status(id) of an id that is not subscribed changes
\* nothing, and neither call touches another subscriber; a broadcast hands
\* the transport at most one message for an id, and exactly one when the id
\* has a card.
TimesSubscribed(entries, id) ==
    Cardinality({ k \in 1..Len(entries) : entries[k] = id })
C36_SubscribeIdempotent ==
    /\ [][\A id \in PeerIds :
            /\ Subscribe(id) =>
                  /\ TimesSubscribed(status_listeners', id) = 1
                  /\ TimesSubscribed(status_listeners, id) = 1 =>
                        status_listeners' = status_listeners
                  /\ \A other \in PeerIds \ {id} :
                        TimesSubscribed(status_listeners', other) =
                            TimesSubscribed(status_listeners, other)
            /\ Unsubscribe(id) =>
                  /\ TimesSubscribed(status_listeners', id) = 0
                  /\ TimesSubscribed(status_listeners, id) = 0 =>
                        Keys(status_listeners') = Keys(status_listeners)
                  /\ \A other \in PeerIds \ {id} :
                        TimesSubscribed(status_listeners', other) =
                            TimesSubscribed(status_listeners, other)]_vars
    /\ [](\A o \in OpIds :
            Finished(o, {"broadcast"})
            => \A id \in PeerIds :
                  /\ TimesSubscribed(ops[o].listeners, id) <= 1
                  /\ AttemptsTo(o, id) =
                        IF Subscribed(o, id) /\ Resolves(id) THEN 1 ELSE 0)
\* the latest call subscribed an id that was subscribed already, ahead of
\* another subscriber, and a broadcast to both handed the transport one
\* message for it
C36_Witness ==
    /\ last_call.op = "subscribe_to_status"
    /\ Len(Keys(status_listeners)) = 2
    /\ Keys(status_listeners)[1] = last_call.arg[1]
    /\ \E o \in OpIds :
          /\ Finished(o, {"broadcast"})
          /\ ops[o].listeners = Keys(status_listeners)
          /\ AttemptsTo(o, last_call.arg[1]) = 1

\* C37: when initialize() has completed the directory holds the agent's card
\* with its id and its capabilities, and every shutdown() ends by returning,
\* with the card removed from the directory, whatever the deliveries of its
\* status broadcast did.
C37_RecordFollowsLifecycle ==
    [][/\ last_call'.op = "initialize" /\ Initialize =>
             GetAgent(registry', ClientId) =
                 <<Card(ClientId, AgentCapabilities)>>
       /\ \A o \in OpIds :
             (/\ ops[o].pc # "done"
              /\ ops'[o].pc = "done"
              /\ ops'[o].kind = "shutdown")
             => /\ ~ops'[o].outcome.raised
                /\ GetAgent(registry', ClientId) = <<>>]_vars

\* C38: whenever route_task runs a task on a local handle, the handle's
\* capabilities include every capability the task requires; the handle may
\* have a card under its own id, with its own capabilities, in the
\* directory.
C38_LocalExecutionCovers ==
    \A c \in CallIds :
        \A k \in 1..Len(calls[c].invoked) :
            calls[c].invoked[k][1] = "local"
            => LET agent_id == calls[c].invoked[k][2]
                   agent == DictGet(calls[c].seen.agents, agent_id)
                   card == GetAgent(calls[c].seen.registry, agent_id)
                   required == calls[c].task.capabilities
               IN  (card = <<>> \/ card[1].capabilities = agent.capabilities)
                   => \A i \in 1..Len(required) :
                         required[i] \in agent.capabilities

\* C39: a route_task call whose selection returned the id of a local handle
\* runs the task with that handle's process_task and hands nothing to the
\* delegation client, and its answer is the handle's, also when
\* unregister_agent removed the handle after the selection.
C39_LocalSelectionRunsLocally ==
    \A c \in CallIds :
        (/\ calls[c].pc # "idle"
         /\ calls[c].entry = "route"
         /\ calls[c].agent # None
         /\ IsLocal(calls[c].seen.agents, calls[c].agent))
        => /\ calls[c].invoked = << <<"local", calls[c].agent>> >>
           /\ calls[c].pc \in {"invoking", "done"}
           /\ calls[c].pc = "done" =>
                 \E r \in AgentResults :
                     calls[c].outcome =
                         Returned(CompletedText(calls[c].agent, r))

\* C40: once end_conversation has set a session's flag to false, every step
\* leaves it false or is the cleanup that removes the session; a
\* process_user_input call for the ended session still appends the user's
\* message to its log and, when the agent has answered, the answer, which it
\* returns.
C40_EndedStaysEnded ==
    [][\A u \in Users :
          (u \in DOMAIN active_sessions /\ ~active_sessions[u])
          => /\ IF u \in DOMAIN active_sessions'
                THEN ~active_sessions'[u]
                ELSE CleanupStep
             /\ \A c \in CallIds :
                   (/\ calls[c].pc = "idle"
                    /\ calls'[c].pc # "idle"
                    /\ calls'[c].user = u)
                   => SubSeq(conversation_history'[u], 1,
                             Len(conversation_history[u]) + 1)
                         = Append(conversation_history[u],
                                  Entry("user", calls'[c].message))
             /\ \A c \in CallIds :
                   (/\ calls[c].pc = "invoking"
                    /\ calls'[c].pc = "done"
                    /\ calls[c].user = u)
                   => /\ ~calls'[c].outcome.raised
                      /\ conversation_history'[u]
                            = Append(conversation_history[u],
                                     Entry("assistant",
                                           calls'[c].outcome.text))]_vars
\* a process call found its session ended and has returned: the session has
\* the call's two entries more and is still not active, and preferences were
\* set after the end
C40_Witness ==
    \E c \in CallIds :
        /\ calls[c].entry = "process"
        /\ calls[c].pc = "done"
        /\ calls[c].session.active = <<FALSE>>
        /\ ~calls[c].outcome.raised
        /\ calls[c].user \in DOMAIN active_sessions
        /\ ~active_sessions[calls[c].user]
        /\ conversation_history[calls[c].user]
              = calls[c].session.history
                  \o << Entry("user", calls[c].message),
                        Entry("assistant", calls[c].outcome.text) >>
        /\ last_call.op = "set_preferences"
====
